---- MODULE Spec2Model ----
(***************************************************************************)
(* A model of the NAS flight-data distribution core of vice (pkg/sim/nas.go): *)
(* ERAM and STARS facility computers, their inboxes, squawk pools, flight    *)
(* plans, track information and the per-tick Update pass.                    *)
(*                                                                           *)
(* Conventions.                                                              *)
(*  - A Go map is a TLA+ function whose DOMAIN is the set of keys present.   *)
(*  - A Go string is a TLA+ string; where the code looks inside a string     *)
(*    (prefix, substring, first byte) the characters come from the table     *)
(*    Chars.  Flight identifiers (ECID + callsign), which the code           *)
(*    concatenates and slices, are sequences of one-character strings.       *)
(*  - *STARSFlightPlan pointers are references into a heap of plan objects;  *)
(*    reference 0 is nil.                                                    *)
(*  - time.Time is a number of minutes; the zero time.Time is 0.             *)
(*  - A Go panic sets fault and ends the operation where it stands; the      *)
(*    program takes no further step.                                         *)
(*  - Iterating a Go map visits the keys in an unspecified order: every      *)
(*    order is a possible outcome.                                           *)
(***************************************************************************)
EXTENDS Integers, Sequences, FiniteSets, TLC

VARIABLES
    adaptName,   \* which av.DB.ERAMAdaptations data set the world was built from
    eram,        \* ERAMComputers.Computers: center -> ERAMComputer state
    stars,       \* center's STARSComputers, flattened: tracon -> STARSComputer state
    bank,        \* center -> the beacon-bank squawk map shared by its STARSComputers
    heap,        \* the *STARSFlightPlan objects: a sequence, index = reference
    events,      \* the EventStream: events posted so far
    fault,       \* "" or the panic that ended the program
    now,         \* simulated time of the last Update, minutes
    ticks,       \* number of Update calls so far
    sends,       \* number of externally submitted messages so far
    allocs,      \* number of CreateSquawk calls so far
    last,        \* the last operation: its name, arguments, result and step log
    issued,      \* pool -> the codes CreateSquawk returned since a code was last put
                 \* into the pool, and whether a code was ever put into it
    radar,       \* the WeatherRadar: its active flag and its reqChan
    Mutex,       \* LoggingMutex -> whether its embedded sync.Mutex is locked
    heldMutexesMutex,  \* whether the package's heldMutexesMutex is locked
    heldMutexes, \* the keys of the package's heldMutexes map
    pc,          \* goroutine -> where it stands in Lock or Unlock, and on which mutex
    notHeld      \* the LoggingMutexes Unlock logged "mutex not held" for

\* the state of the flight-data computers and the counters of their calls
nas == <<adaptName, eram, stars, bank, heap, events, now, ticks, sends, allocs, issued>>

\* the state of LoggingMutex and of the goroutines that use it
sync == <<Mutex, heldMutexesMutex, heldMutexes, pc, notHeld>>

vars == <<adaptName, eram, stars, bank, heap, events, fault, now, ticks, sends, allocs, last, issued,
          radar, Mutex, heldMutexesMutex, heldMutexes, pc, notHeld>>

-----------------------------------------------------------------------------
(* Bounds of the model *)

\* Update calls explored
MaxTicks == 2
\* externally submitted messages explored
MaxSends == 2
\* CreateSquawk calls explored per run
MaxAllocs == 2
\* squawk codes of the window around the VFR code that the pools are cut to
NumWindowCodes == 4
\* messages of one flight submitted to a center before it sorts them
MaxBatch == 3
\* tokens after the identifier in the lists the parser is called on
MaxTokens == 2
\* requests the WeatherRadar's request channel buffers (1000 in the program)
ReqChanCap == 2
\* goroutines that use the LoggingMutexes
NumGoroutines == 2
\* LoggingMutexes in the program
NumMutexes == 2

-----------------------------------------------------------------------------
(* Message types, nas.go:37-56 *)

Plan == 0
Amendment == 1
Cancellation == 2
RequestFlightPlan == 3
DepartureDM == 4
BeaconTerminate == 5
InitiateTransfer == 6
AcceptRecallTransfer == 7

MessageTypes == Plan .. AcceptRecallTransfer

\* const TransmitFPMessageTime = 30 * time.Minute
TransmitFPMessageTime == 30

-----------------------------------------------------------------------------
(* Strings the code looks inside *)

Chars ==
    [s \in {"", "0", "110", "VFR", "VFR/", "VFR/0", "VFR/110", "VFR/55", "F1", "F2", "F1 F2",
            "ZNY", "ZBW", "N90", "PHL", "A90", "XXX"} |->
        CASE s = "" -> <<>>
          [] s = "0" -> <<"0">>
          [] s = "110" -> <<"1", "1", "0">>
          [] s = "VFR" -> <<"V", "F", "R">>
          [] s = "VFR/" -> <<"V", "F", "R", "/">>
          [] s = "VFR/0" -> <<"V", "F", "R", "/", "0">>
          [] s = "VFR/110" -> <<"V", "F", "R", "/", "1", "1", "0">>
          [] s = "VFR/55" -> <<"V", "F", "R", "/", "5", "5">>
          [] s = "F1" -> <<"F", "1">>
          [] s = "F2" -> <<"F", "2">>
          [] s = "F1 F2" -> <<"F", "1", " ", "F", "2">>
          [] s = "ZNY" -> <<"Z", "N", "Y">>
          [] s = "ZBW" -> <<"Z", "B", "W">>
          [] s = "N90" -> <<"N", "9", "0">>
          [] s = "PHL" -> <<"P", "H", "L">>
          [] s = "A90" -> <<"A", "9", "0">>
          [] s = "XXX" -> <<"X", "X", "X">>]

\* a + b on strings
StringsConcat(a, b) == CHOOSE s \in DOMAIN Chars : Chars[s] = Chars[a] \o Chars[b]

\* strings.Contains(s, sub)
StringsContains(s, sub) ==
    LET a == Chars[s]
        b == Chars[sub]
    IN \E i \in 0 .. (Len(a) - Len(b)) : SubSeq(a, i + 1, i + Len(b)) = b

\* strings.Fields(s): the maximal runs of non-space characters
RECURSIVE FieldsOf(_, _, _)
FieldsOf(cs, cur, acc) ==
    IF cs = <<>> THEN (IF cur = <<>> THEN acc ELSE Append(acc, cur))
    ELSE IF Head(cs) = " "
         THEN FieldsOf(Tail(cs), <<>>, IF cur = <<>> THEN acc ELSE Append(acc, cur))
         ELSE FieldsOf(Tail(cs), Append(cur, Head(cs)), acc)

StringsFields(s) == FieldsOf(Chars[s], <<>>, <<>>)

\* strconv.Atoi on an altitude string: <<ok, value>>
RECURSIVE DigitsValue(_, _)
DigitsValue(cs, acc) ==
    IF cs = <<>> THEN acc
    ELSE LET d == CASE Head(cs) = "0" -> 0 [] Head(cs) = "1" -> 1 [] Head(cs) = "2" -> 2
                    [] Head(cs) = "3" -> 3 [] Head(cs) = "4" -> 4 [] Head(cs) = "5" -> 5
                    [] Head(cs) = "6" -> 6 [] Head(cs) = "7" -> 7 [] Head(cs) = "8" -> 8
                    [] Head(cs) = "9" -> 9 [] OTHER -> -1
         IN IF d < 0 THEN -1 ELSE DigitsValue(Tail(cs), 10 * acc + d)

Atoi(s) ==
    LET v == IF Chars[s] = <<>> THEN -1 ELSE DigitsValue(Chars[s], 0)
    IN IF v < 0 THEN <<FALSE, 0>> ELSE <<TRUE, v>>

-----------------------------------------------------------------------------
(* Go maps *)

EmptyMap == [k \in {} |-> 0]
MapSet(m, k, v) == [x \in (DOMAIN m) \cup {k} |-> IF x = k THEN v ELSE m[x]]
MapDel(m, k) == [x \in (DOMAIN m) \ {k} |-> m[x]]

-----------------------------------------------------------------------------
(* The aviation database av.DB and the squawk ranges *)

\* av.DB.TRACONs: tracon -> its ARTCC
TRACONs == [t \in {"N90", "PHL", "A90"} |-> IF t = "A90" THEN "ZBW" ELSE "ZNY"]

Tracons == DOMAIN TRACONs

\* the keys of av.DB.ERAMAdaptations
Centers == {"ZNY", "ZBW"}

\* identifiers handed to the registry and to the send operations
FacilityNames == Centers \cup Tracons \cup {"XXX", ""}

\* av.DB.TRACONs[name].ARTCC, the zero TRACON for a missing key
TRACONARTCC(name) == IF name \in DOMAIN TRACONs THEN TRACONs[name] ELSE ""

\* starsBeaconBank, the argument of MakeERAMComputers
StarsBeaconBank == \o12

VFRCode == \o1200

\* the squawk codes the model keeps of each pool
Window == {c \in \o1001 .. \o7777 : c >= \o1177 /\ c < \o1177 + NumWindowCodes}

\* av.SquawkIsSPC
SPCs == {\o7400, \o7500, \o7600, \o7700, \o7777}
SquawkIsSPC(sq) == sq \in SPCs

getValidSquawkCodes == {i \in Window : ~SquawkIsSPC(i) /\ i # VFRCode}

getBeaconBankSquawks(b) == {i \in Window : i >= b * \o100 + 1 /\ i <= b * \o100 + \o77}

\* squawk codes carried by messages
Q1 == \o1201
Q2 == \o1202
BCNs == {0, Q1, Q2}

-----------------------------------------------------------------------------
(* ERAM adaptations: av.ERAMAdaptation.CoordinationFixes *)

RouteBasedFix == "route"
ZoneBasedFix == "zone"

AF(type, from, to, lo, hi) ==
    [Type |-> type, FromFacility |-> from, ToFacility |-> to, Altitude |-> <<lo, hi>>]

\* Data set "relay": F1 hands traffic down to a terminal facility by altitude band,
\* F2 hands it from ZBW to ZNY.  Data set "loop": each center names the other one
\* as the owner and as the origin of F1.  Data set "split": as "relay", with one
\* band for F1 and F2 adapted from flight level 200 up only.
Adaptations ==
    [n \in {"relay", "loop", "split"} |->
        [c \in Centers |->
            IF n = "split"
            THEN [f \in {"F1", "F2"} |->
                    IF f = "F1"
                    THEN <<AF(RouteBasedFix, c, IF c = "ZNY" THEN "N90" ELSE "A90", 0, 999)>>
                    ELSE <<AF(RouteBasedFix, "ZBW", "ZNY", 200, 999)>>]
            ELSE IF n = "relay"
            THEN IF c = "ZNY"
                 THEN [f \in {"F1", "F2"} |->
                         IF f = "F1"
                         THEN <<AF(RouteBasedFix, "ZNY", "N90", 0, 120),
                                AF(RouteBasedFix, "ZNY", "PHL", 121, 999)>>
                         ELSE <<AF(RouteBasedFix, "ZBW", "ZNY", 0, 999)>>]
                 ELSE [f \in {"F1", "F2"} |->
                         IF f = "F1"
                         THEN <<AF(RouteBasedFix, "ZBW", "A90", 0, 999)>>
                         ELSE <<AF(RouteBasedFix, "ZBW", "ZNY", 0, 999)>>]
            ELSE IF c = "ZNY"
                 THEN [f \in {"F1"} |-> <<AF(RouteBasedFix, "ZBW", "ZBW", 0, 999)>>]
                 ELSE [f \in {"F1"} |-> <<AF(RouteBasedFix, "ZNY", "ZNY", 0, 999)>>]]]

AdaptationNames == DOMAIN Adaptations

NoFix == AF("", "", "", 0, 0)

\* av.AdaptationFixes.Fix(altitude): the entry whose altitude band holds the
\* altitude; <<ok, entry>>
Fix(fixes, altitude) ==
    LET a == Atoi(altitude)
        hit == {i \in 1 .. Len(fixes) :
                   a[1] /\ fixes[i].Altitude[1] <= a[2] /\ a[2] <= fixes[i].Altitude[2]}
    IN IF hit = {} THEN <<FALSE, NoFix>>
       ELSE <<TRUE, fixes[CHOOSE i \in hit : \A j \in hit : i <= j]>>

\* av.ERAMAdaptation.AdaptationFixForAltitude(fix, altitude): <<ok, entry>>
AdaptationFixForAltitude(cf, fix, altitude) ==
    IF fix \notin DOMAIN cf THEN <<FALSE, NoFix>> ELSE Fix(cf[fix], altitude)

\* av.ERAMAdaptation.FixForRouteAndAltitude(route, altitude): every <<fix, ok>>
\* the map iteration can return
FixForRouteAndAltitude(cf, route, altitude) ==
    LET waypoints == StringsFields(route)
        found == {f \in DOMAIN cf :
                     /\ \E i \in 1 .. Len(waypoints) : waypoints[i] = Chars[f]
                     /\ Fix(cf[f], altitude)[1]
                     /\ Fix(cf[f], altitude)[2].Type # ZoneBasedFix}
    IN IF found = {} THEN {<<"", FALSE>>} ELSE {<<f, TRUE>> : f \in found}

-----------------------------------------------------------------------------
(* Flight plans and messages *)

IFR == "IFR"
VFR == "VFR"

NoTime == [Time |-> 0, Type |-> ""]

\* the zero STARSFlightPlan.  Callsign and ECID are character sequences,
\* AircraftType is its sequence of "/"-separated fields, CruiseAltitude is the
\* embedded av.FlightPlan.Altitude, Altitude the STARSFlightPlan.Altitude string.
ZeroPlan ==
    [Callsign |-> <<>>, ECID |-> <<>>, Rules |-> IFR, AircraftType |-> <<>>,
     AssignedSquawk |-> 0, DepartureAirport |-> "", ArrivalAirport |-> "",
     Route |-> "", Exit |-> "", CruiseAltitude |-> 0,
     CoordinationTime |-> NoTime, CoordinationFix |-> "",
     ContainedFacilities |-> <<>>, Altitude |-> ""]

ZeroAircraftData ==
    [DepartureLocation |-> "", ArrivalLocation |-> "", NumberOfAircraft |-> 0,
     AircraftType |-> <<>>, AircraftCategory |-> <<>>, Equipment |-> <<>>]

NoSourceID == <<>>

\* the zero FlightPlanMessage; of the embedded TrackInformation only the fields
\* the handlers read are kept
ZeroMessage ==
    [SourceID |-> NoSourceID, MessageType |-> Plan, FlightID |-> <<>>,
     AircraftData |-> ZeroAircraftData, BCN |-> 0, CoordinationFix |-> "",
     CoordinationTime |-> NoTime, Altitude |-> "", Route |-> "",
     Identifier |-> "", TrackOwner |-> "", HandoffController |-> ""]

\* av.FlightPlan.TypeWithoutSuffix: the type with its equipment suffix chopped off
TypeWithoutSuffix(actype) ==
    CASE Len(actype) = 3 -> SubSeq(actype, 1, 2)
      [] Len(actype) = 2 -> IF actype[1] \in {"H", "S"} THEN actype ELSE SubSeq(actype, 1, 1)
      [] OTHER -> actype

\* strings.TrimPrefix(full, prefix), on "/"-separated fields
TrimPrefix(full, prefix) ==
    IF Len(prefix) <= Len(full) /\ SubSeq(full, 1, Len(prefix)) = prefix
    THEN SubSeq(full, Len(prefix) + 1, Len(full))
    ELSE full

\* t.Format("1504Z"): hours and minutes of the day
Format1504(t) == ((t \div 60) % 24) * 100 + (t % 60)

\* formatSourceID(id, t): id followed by the formatted time
formatSourceID(id, t) == <<id, Format1504(t)>>

\* STARSFlightPlan.Message with the squawk left out
MessageDropsSquawk(fp) ==
    [ZeroMessage EXCEPT
        !.Altitude = fp.Altitude,
        !.Route = fp.Route,
        !.AircraftData =
            [DepartureLocation |-> fp.DepartureAirport,
             ArrivalLocation |-> fp.ArrivalAirport,
             NumberOfAircraft |-> 1,
             AircraftType |-> TypeWithoutSuffix(fp.AircraftType),
             AircraftCategory |-> fp.AircraftType,
             Equipment |-> TrimPrefix(fp.AircraftType, TypeWithoutSuffix(fp.AircraftType))],
        !.FlightID = fp.ECID \o fp.Callsign,
        !.CoordinationFix = fp.CoordinationFix,
        !.CoordinationTime = fp.CoordinationTime]

\* func (fp STARSFlightPlan) Message() FlightPlanMessage
Message(fp) ==
    [ZeroMessage EXCEPT
        !.BCN = fp.AssignedSquawk,
        !.Altitude = fp.Altitude,
        !.Route = fp.Route,
        !.AircraftData =
            [DepartureLocation |-> fp.DepartureAirport,
             ArrivalLocation |-> fp.ArrivalAirport,
             NumberOfAircraft |-> 1,
             AircraftType |-> TypeWithoutSuffix(fp.AircraftType),
             AircraftCategory |-> fp.AircraftType,
             Equipment |-> TrimPrefix(fp.AircraftType, TypeWithoutSuffix(fp.AircraftType))],
        !.FlightID = fp.ECID \o fp.Callsign,
        !.CoordinationFix = fp.CoordinationFix,
        !.CoordinationTime = fp.CoordinationTime]

\* func (s FlightPlanMessage) FlightPlan() *STARSFlightPlan (the object it allocates)
FlightPlan(s) ==
    LET flightPlan ==
            [ZeroPlan EXCEPT
                !.Rules = IF StringsContains(s.Altitude, "VFR") THEN VFR ELSE IFR,
                !.AircraftType = s.AircraftData.AircraftType,
                !.AssignedSquawk = s.BCN,
                !.DepartureAirport = s.AircraftData.DepartureLocation,
                !.ArrivalAirport = s.AircraftData.ArrivalLocation,
                !.Route = s.Route,
                !.CoordinationFix = s.CoordinationFix,
                !.CoordinationTime = s.CoordinationTime,
                !.Altitude = s.Altitude]
    IN IF Len(s.FlightID) > 3
       THEN [flightPlan EXCEPT !.ECID = SubSeq(s.FlightID, 1, 3),
                               !.Callsign = SubSeq(s.FlightID, 4, Len(s.FlightID))]
       ELSE flightPlan

\* strconv.Itoa on a cruise altitude, for the altitudes of the model
Itoa(n) == IF n = 110 THEN "110" ELSE "0"

\* FlightPlanDepartureMessage(fp av.FlightPlan, sendingFacility, simTime)
FlightPlanDepartureMessage(fp, sendingFacility, simTime) ==
    [ZeroMessage EXCEPT
        !.SourceID = formatSourceID(sendingFacility, simTime),
        !.MessageType = Plan,
        !.FlightID = fp.ECID \o fp.Callsign,
        !.AircraftData =
            [DepartureLocation |-> fp.DepartureAirport,
             ArrivalLocation |-> fp.ArrivalAirport,
             NumberOfAircraft |-> 1,
             AircraftType |-> TypeWithoutSuffix(fp.AircraftType),
             AircraftCategory |-> fp.AircraftType,
             Equipment |-> TrimPrefix(fp.AircraftType, TypeWithoutSuffix(fp.AircraftType))],
        !.BCN = fp.AssignedSquawk,
        !.CoordinationFix = fp.Exit,
        !.Altitude = StringsConcat(IF fp.Rules = VFR THEN "VFR/" ELSE "", Itoa(fp.CruiseAltitude)),
        !.Route = fp.Route]

-----------------------------------------------------------------------------
(* The world an operation works on: the variables, plus the log of what the   *)
(* operation did (steps: one entry per message handled; delivered: one entry  *)
(* per message appended to an inbox; phases: the passes run, in order;        *)
(* warnings: the lines written with lg.Warnf).                                *)

NilPlan == 0

ErrUnknownFacility == "unknown facility"
ErrNoMoreAvailableSquawkCodes == "no more available squawk codes"

\* the STARSComputers of a center, built by MakeERAMComputer from av.DB.TRACONs
STARSComputers(c) == {t \in DOMAIN TRACONs : TRACONs[t] = c}

\* the keys of a center's ERAMInboxes, built by MakeERAMComputers
ERAMInboxes(c) == {c2 \in Centers : c2 # c}

\* a STARSInbox that holds the terminal facilities of the facility's own
\* center only
STARSInboxOfOwnCenter(t) == {t2 \in Tracons : t2 # t /\ TRACONs[t2] = TRACONs[t]}

\* the keys of a terminal facility's STARSInbox, built by MakeERAMComputers
STARSInbox(t) == {t2 \in Tracons : t2 # t}

Panic(w, what) == [w EXCEPT !.fault = what]

\* lg.Warnf that ends the program
WarnfFatal(w, what) == [w EXCEPT !.fault = what]

\* lg.Warnf(...)
Warnf(w, what) == [w EXCEPT !.warnings = Append(@, what)]

\* the log entry of an append to an inbox: during names the pass that made it,
\* plan the plan object a timed transmission sent
Deliver(w, from, to, msg) ==
    [w EXCEPT !.delivered = Append(@, [from |-> from, to |-> to, msg |-> msg,
                                       during |-> w.cur, plan |-> NilPlan])]

\* a pass begins; a pass that returned, with the queue it left
Begin(w, pass) == [w EXCEPT !.cur = pass]
Returned(w, pass, fac, queue) ==
    [w EXCEPT !.cur = "", !.phases = Append(@, [pass |-> pass, fac |-> fac, queue |-> queue])]

\* func (comp *ERAMComputer) ToSTARSFacility(facility, msg) error: <<world, err>>
ToSTARSFacility(w, c, facility, msg) ==
    IF facility \notin STARSComputers(c)
    THEN <<w, ErrUnknownFacility>>
    ELSE <<Deliver([w EXCEPT !.stars[facility].ReceivedMessages = Append(@, msg)],
                   c, facility, msg), "">>

\* SendMessageToERAM that knows no peer center
SendMessageToERAMUnknown(w, c, facility, msg) == <<w, ErrUnknownFacility>>

\* func (comp *ERAMComputer) SendMessageToERAM(facility, msg) error: <<world, err>>
SendMessageToERAM(w, c, facility, msg) ==
    IF facility \notin ERAMInboxes(c)
    THEN <<w, ErrUnknownFacility>>
    ELSE <<Deliver([w EXCEPT !.eram[facility].ReceivedMessages = Append(@, msg)],
                   c, facility, msg), "">>

\* msg.FlightPlan() allocates a plan object: <<world, reference>>
NewPlan(w, fp) == <<[w EXCEPT !.heap = Append(@, fp)], Len(w.heap) + 1>>

CoordinationFixes(c) == Adaptations[adaptName][c]

\* a center's map lookup comp.TrackInformation[id] == nil
NoTrack(comp, id) == id \notin DOMAIN comp.TrackInformation

TrackInfo(id, owner, hc, fp) ==
    [Identifier |-> id, TrackOwner |-> owner, HandoffController |-> hc, FlightPlan |-> fp]

-----------------------------------------------------------------------------
(* ERAMComputer.SortMessages, one case of the switch per operator.  Each      *)
(* returns the set of worlds the case can end in.                             *)

\* case Plan, nas.go:202-229
ERAMPlan(w, c, msg) ==
    LET a == NewPlan(w, FlightPlan(msg))
        ref == a[2]
    IN IF a[1].heap[ref].AssignedSquawk = 0
       THEN {Panic(a[1], "zero squawk")}
       ELSE LET w1 == [a[1] EXCEPT !.eram[c].FlightPlans = MapSet(@, msg.BCN, ref)]
                forward(w2) ==
                    LET fp == w2.heap[ref]
                        af == AdaptationFixForAltitude(CoordinationFixes(c),
                                                       fp.CoordinationFix, fp.Altitude)
                    IN IF af[1] /\ af[2].ToFacility # c
                       THEN ToSTARSFacility(w2, c, af[2].ToFacility, msg)[1]
                       ELSE w2
            IN IF w1.heap[ref].CoordinationFix = ""
               THEN {LET w2 == [w1 EXCEPT !.heap[ref].CoordinationFix = r[1]]
                     IN IF r[2] THEN forward(w2)
                        ELSE Warnf(w2, "Coordination fix not found for route") :
                        r \in FixForRouteAndAltitude(CoordinationFixes(c),
                                                     w1.heap[ref].Route, w1.heap[ref].Altitude)}
               ELSE {forward(w1)}

\* msg.SourceID[:3]: <<ok, facility>>; facility identifiers have three characters
SourceFacility(sid) == IF sid = NoSourceID THEN <<FALSE, "">> ELSE <<TRUE, sid[1]>>

\* the embedded av.FlightPlan of a STARSFlightPlan
EmbeddedFlightPlan(fp) == fp

\* case RequestFlightPlan that sends no answer
ERAMRequestFlightPlanNoAnswer(w, c, msg, simTime) ==
    LET src == SourceFacility(msg.SourceID)
    IN IF ~src[1] THEN {Panic(w, "slice bounds out of range")}
       ELSE IF w.eram[c].ReceivedMessages = <<>>
       THEN {Panic(w, "slice bounds out of range")}
       ELSE {[w EXCEPT !.eram[c].ReceivedMessages = Tail(@)]}

\* case RequestFlightPlan, nas.go:231-241
ERAMRequestFlightPlan(w, c, msg, simTime) ==
    LET src == SourceFacility(msg.SourceID)
    IN IF ~src[1] THEN {Panic(w, "slice bounds out of range")}
       ELSE LET w1 == IF msg.BCN \in DOMAIN w.eram[c].FlightPlans
                      THEN ToSTARSFacility(w, c, src[2],
                               FlightPlanDepartureMessage(
                                   EmbeddedFlightPlan(w.heap[w.eram[c].FlightPlans[msg.BCN]]),
                                   c, simTime))[1]
                      ELSE w
            IN IF w1.eram[c].ReceivedMessages = <<>>
               THEN {Panic(w1, "slice bounds out of range")}
               ELSE {[w1 EXCEPT !.eram[c].ReceivedMessages = Tail(@)]}

\* the loop over comp.Adaptation.CoordinationFixes of case InitiateTransfer,
\* nas.go:259-280: left holds the fixes not visited yet; msg.SourceID is set
\* by the first forward and kept
RECURSIVE ERAMInitiateTransferLoop(_, _, _, _, _)
ERAMInitiateTransferLoop(w, c, msg, simTime, left) ==
    IF left = {} \/ w.fault # "" THEN {w}
    ELSE UNION {
        LET fixes == CoordinationFixes(c)[name]
            info == w.eram[c].TrackInformation[msg.Identifier]
        IN IF info.FlightPlan = NilPlan
           THEN {Panic(w, "nil pointer dereference")}
           ELSE LET alt == w.heap[info.FlightPlan].Altitude
                    fix == Fix(fixes, alt)
                IN IF ~fix[1]
                   THEN ERAMInitiateTransferLoop(Warnf(w, "Couldn't find adaptation fix"),
                                                 c, msg, simTime, left \ {name})
                   ELSE IF name = msg.CoordinationFix /\ fix[2].ToFacility # c
                   THEN LET m2 == [msg EXCEPT !.SourceID = formatSourceID(c, simTime)]
                            to == fix[2].ToFacility
                            w2 == IF Len(Chars[to]) > 0 /\ Chars[to][1] = "Z"
                                  THEN SendMessageToERAM(w, c, to, m2)[1]
                                  ELSE ToSTARSFacility(w, c, to, m2)[1]
                        IN ERAMInitiateTransferLoop(w2, c, m2, simTime, left \ {name})
                   ELSE IF name = msg.CoordinationFix /\ fix[2].ToFacility = c
                   THEN LET w2 == [w EXCEPT !.eram[c].TrackInformation =
                                       MapSet(@, msg.Identifier,
                                              TrackInfo("", msg.TrackOwner, msg.HandoffController,
                                                        IF msg.BCN \in DOMAIN w.eram[c].FlightPlans
                                                        THEN w.eram[c].FlightPlans[msg.BCN]
                                                        ELSE NilPlan))]
                        IN ERAMInitiateTransferLoop(w2, c, msg, simTime, left \ {name})
                   ELSE ERAMInitiateTransferLoop(w, c, msg, simTime, left \ {name})
        : name \in left }

\* case InitiateTransfer, nas.go:247-280
ERAMInitiateTransfer(w, c, msg, simTime) ==
    LET comp == w.eram[c]
        ti0 == IF NoTrack(comp, msg.Identifier)
               THEN MapSet(comp.TrackInformation, msg.Identifier,
                           TrackInfo("", "", "",
                                     IF msg.BCN \in DOMAIN comp.FlightPlans
                                     THEN comp.FlightPlans[msg.BCN] ELSE NilPlan))
               ELSE comp.TrackInformation
        ti1 == MapSet(ti0, msg.Identifier,
                      [ti0[msg.Identifier] EXCEPT
                          !.TrackOwner = msg.TrackOwner,
                          !.HandoffController = msg.HandoffController])
        w1 == [w EXCEPT !.eram[c].TrackInformation = ti1,
                        !.eram[c].AvailableSquawks = @ \cup {msg.BCN}]
    IN ERAMInitiateTransferLoop(w1, c, msg, simTime, DOMAIN CoordinationFixes(c))

\* case AcceptRecallTransfer that frees the squawk whoever the owner is
ERAMAcceptRecallTransferAlwaysReleases(w, c, msg) ==
    IF msg.CoordinationFix \notin DOMAIN CoordinationFixes(c)
    THEN {Warnf(w, "adaptation fixes not found for coordination fix")}
    ELSE LET adaptationFixes == CoordinationFixes(c)[msg.CoordinationFix]
             comp == w.eram[c]
             w1 == IF NoTrack(comp, msg.Identifier) THEN w
                   ELSE [w EXCEPT
                           !.eram[c].AvailableSquawks = @ \cup {msg.BCN},
                           !.eram[c].TrackInformation =
                               MapSet(@, msg.Identifier,
                                      [comp.TrackInformation[msg.Identifier] EXCEPT
                                          !.TrackOwner = msg.TrackOwner])]
         IN IF NoTrack(comp, msg.Identifier)
               \/ comp.TrackInformation[msg.Identifier].FlightPlan = NilPlan
            THEN {Panic(w1, "nil pointer dereference")}
            ELSE LET altitude == w1.heap[comp.TrackInformation[msg.Identifier].FlightPlan].Altitude
                     adaptationFix == Fix(adaptationFixes, altitude)
                 IN IF adaptationFix[1] /\ adaptationFix[2].FromFacility # c
                    THEN {SendMessageToERAM(w1, c, adaptationFix[2].FromFacility, msg)[1]}
                    ELSE {w1}

\* case AcceptRecallTransfer, nas.go:282-303
ERAMAcceptRecallTransfer(w, c, msg) ==
    IF msg.CoordinationFix \notin DOMAIN CoordinationFixes(c)
    THEN {Warnf(w, "adaptation fixes not found for coordination fix")}
    ELSE LET adaptationFixes == CoordinationFixes(c)[msg.CoordinationFix]
             comp == w.eram[c]
             w1 == IF NoTrack(comp, msg.Identifier) THEN w
                   ELSE [w EXCEPT
                           !.eram[c].AvailableSquawks =
                               IF msg.TrackOwner = comp.TrackInformation[msg.Identifier].TrackOwner
                               THEN @ \cup {msg.BCN} ELSE @,
                           !.eram[c].TrackInformation =
                               MapSet(@, msg.Identifier,
                                      [comp.TrackInformation[msg.Identifier] EXCEPT
                                          !.TrackOwner = msg.TrackOwner])]
         IN IF NoTrack(comp, msg.Identifier)
               \/ comp.TrackInformation[msg.Identifier].FlightPlan = NilPlan
            THEN {Panic(w1, "nil pointer dereference")}
            ELSE LET altitude == w1.heap[comp.TrackInformation[msg.Identifier].FlightPlan].Altitude
                     adaptationFix == Fix(adaptationFixes, altitude)
                 IN IF adaptationFix[1] /\ adaptationFix[2].FromFacility # c
                    THEN {SendMessageToERAM(w1, c, adaptationFix[2].FromFacility, msg)[1]}
                    ELSE {w1}

\* the switch of SortMessages on one message
ERAMHandle(w, c, msg, simTime) ==
    CASE msg.MessageType = Plan -> ERAMPlan(w, c, msg)
      [] msg.MessageType = RequestFlightPlan -> ERAMRequestFlightPlan(w, c, msg, simTime)
      [] msg.MessageType = InitiateTransfer -> ERAMInitiateTransfer(w, c, msg, simTime)
      [] msg.MessageType = AcceptRecallTransfer -> ERAMAcceptRecallTransfer(w, c, msg)
      [] OTHER -> {w}

\* one entry of the step log; left is the number of messages of the batch that
\* come after this one
Step(fac, msg, w, w2, pre, post, left) ==
    [fac |-> fac, msg |-> msg, pre |-> pre, post |-> post,
     posted |-> SubSeq(w2.events, Len(w.events) + 1, Len(w2.events)),
     out |-> SubSeq(w2.delivered, Len(w.delivered) + 1, Len(w2.delivered)),
     warned |-> SubSeq(w2.warnings, Len(w.warnings) + 1, Len(w2.warnings)),
     fault |-> w2.fault, left |-> left]

\* the range loop of SortMessages over the queue as it was when the loop began
RECURSIVE ERAMSortLoop(_, _, _, _)
ERAMSortLoop(w, c, msgs, simTime) ==
    IF msgs = <<>> \/ w.fault # "" THEN {w}
    ELSE UNION {
        ERAMSortLoop([w2 EXCEPT !.steps = Append(@, Step(c, Head(msgs), w, w2,
                                                        w.eram[c], w2.eram[c],
                                                        Len(msgs) - 1))],
                     c, Tail(msgs), simTime)
        : w2 \in ERAMHandle(w, c, Head(msgs), simTime) }

\* the builtin clear on a slice: every element becomes the zero value, the
\* length stays
Clear(s) == [i \in 1 .. Len(s) |-> ZeroMessage]

\* a loop that reads the queue anew at every turn: turn i handles the i-th
\* message of the queue as it is then
RECURSIVE ERAMSortLiveLoop(_, _, _, _)
ERAMSortLiveLoop(w, c, i, simTime) ==
    IF i > Len(w.eram[c].ReceivedMessages) \/ w.fault # "" THEN {w}
    ELSE UNION {
        ERAMSortLiveLoop([w2 EXCEPT !.steps =
                             Append(@, Step(c, w.eram[c].ReceivedMessages[i], w, w2,
                                            w.eram[c], w2.eram[c],
                                            Len(w.eram[c].ReceivedMessages) - i))],
                         c, i + 1, simTime)
        : w2 \in ERAMHandle(w, c, w.eram[c].ReceivedMessages[i], simTime) }

\* SortMessages whose loop follows the queue as the handlers shorten it
SortMessagesOverLiveQueue(w, c, simTime) ==
    LET w0 == Begin(w, "SortMessages")
    IN { IF w1.fault # "" THEN w1
         ELSE LET w2 == [w1 EXCEPT !.eram[c].ReceivedMessages = Clear(@)]
              IN Returned(w2, "SortMessages", c, w2.eram[c].ReceivedMessages)
         : w1 \in ERAMSortLiveLoop(w0, c, 1, simTime) }

\* func (comp *ERAMComputer) SortMessages(simTime, lg)
SortMessages(w, c, simTime) ==
    LET w0 == Begin(w, "SortMessages")
    IN { IF w1.fault # "" THEN w1
         ELSE LET w2 == [w1 EXCEPT !.eram[c].ReceivedMessages = Clear(@)]
              IN Returned(w2, "SortMessages", c, w2.eram[c].ReceivedMessages)
         : w1 \in ERAMSortLoop(w0, c, w0.eram[c].ReceivedMessages, simTime) }

-----------------------------------------------------------------------------
(* Timed flight-plan transmission *)

\* SendFlightPlan that gives up when the center does not know the facility
SendFlightPlanDirectOnly(w, c, ref, tracon, simTime) ==
    LET fp == w.heap[ref]
        msg == [Message(fp) EXCEPT !.MessageType = Plan,
                                   !.SourceID = formatSourceID(c, simTime)]
        adaptFix == AdaptationFixForAltitude(CoordinationFixes(c), fp.CoordinationFix, fp.Altitude)
    IN IF ~adaptFix[1] THEN w
       ELSE LET a == ToSTARSFacility(w, c, tracon, msg)
                w2 == IF a[2] = ""
                      THEN [a[1] EXCEPT !.delivered[Len(a[1].delivered)].plan = ref]
                      ELSE a[1]
            IN [w2 EXCEPT !.heap[ref].ContainedFacilities = Append(@, adaptFix[2].ToFacility)]

\* func (comp *ERAMComputer) SendFlightPlan(fp, tracon, simTime) error
SendFlightPlan(w, c, ref, tracon, simTime) ==
    LET fp == w.heap[ref]
        msg == [Message(fp) EXCEPT !.MessageType = Plan,
                                   !.SourceID = formatSourceID(c, simTime)]
        adaptFix == AdaptationFixForAltitude(CoordinationFixes(c), fp.CoordinationFix, fp.Altitude)
    IN IF ~adaptFix[1] THEN w
       ELSE LET a == ToSTARSFacility(w, c, tracon, msg)
                w1 == IF a[2] # "" THEN SendMessageToERAM(w, c, TRACONARTCC(tracon), msg)[1]
                      ELSE a[1]
                w2 == IF Len(w1.delivered) > Len(w.delivered)
                      THEN [w1 EXCEPT !.delivered[Len(w1.delivered)].plan = ref]
                      ELSE w1
            IN [w2 EXCEPT !.heap[ref].ContainedFacilities = Append(@, adaptFix[2].ToFacility)]

\* sendPlanIfReady that transmits whatever the coordination time is
sendPlanIfReadyAnyTime(w, c, ref, tracon, simTime) ==
    LET fp == w.heap[ref]
        adaptFix == AdaptationFixForAltitude(CoordinationFixes(c), fp.CoordinationFix, fp.Altitude)
    IN IF ~adaptFix[1] THEN w
       ELSE IF \A i \in 1 .. Len(fp.ContainedFacilities) :
                  fp.ContainedFacilities[i] # adaptFix[2].ToFacility
       THEN SendFlightPlan(w, c, ref, tracon, simTime)
       ELSE w

\* the closure sendPlanIfReady of SendFlightPlans, nas.go:127-140
sendPlanIfReady(w, c, ref, tracon, simTime) ==
    LET fp == w.heap[ref]
        adaptFix == AdaptationFixForAltitude(CoordinationFixes(c), fp.CoordinationFix, fp.Altitude)
    IN IF simTime + TransmitFPMessageTime < fp.CoordinationTime.Time THEN w
       ELSE IF ~adaptFix[1] THEN w
       ELSE IF \A i \in 1 .. Len(fp.ContainedFacilities) :
                  fp.ContainedFacilities[i] # adaptFix[2].ToFacility
       THEN SendFlightPlan(w, c, ref, tracon, simTime)
       ELSE w

\* the loop over comp.TrackInformation, nas.go:142-151: left holds the keys not
\* visited yet; a key deleted before its turn is not visited
RECURSIVE SendTrackPlansLoop(_, _, _, _, _)
SendTrackPlansLoop(w, c, tracon, simTime, left) ==
    LET todo == left \cap DOMAIN w.eram[c].TrackInformation
    IN IF todo = {} THEN {w}
       ELSE UNION {
           LET info == w.eram[c].TrackInformation[id]
               fp == info.FlightPlan
               w1 == IF fp = NilPlan THEN w
                     ELSE IF w.heap[fp].Callsign = <<>> /\ w.heap[fp].Altitude = ""
                     THEN [w EXCEPT !.eram[c].TrackInformation = MapDel(@, info.Identifier)]
                     ELSE sendPlanIfReady(w, c, fp, tracon, simTime)
           IN SendTrackPlansLoop(w1, c, tracon, simTime, todo \ {id})
           : id \in todo }

\* the loop over comp.FlightPlans, nas.go:152-154
RECURSIVE SendStoredPlansLoop(_, _, _, _, _)
SendStoredPlansLoop(w, c, tracon, simTime, left) ==
    IF left = {} THEN {w}
    ELSE UNION {
        SendStoredPlansLoop(sendPlanIfReady(w, c, w.eram[c].FlightPlans[sq], tracon, simTime),
                            c, tracon, simTime, left \ {sq})
        : sq \in left }

\* func (comp *ERAMComputer) SendFlightPlans(tracon, simTime, lg)
SendFlightPlans(w, c, tracon, simTime) ==
    LET w0 == Begin(w, "SendFlightPlans")
    IN { Returned(w2, "SendFlightPlans", c, <<>>) :
         w2 \in UNION { SendStoredPlansLoop(w1, c, tracon, simTime,
                                            DOMAIN w1.eram[c].FlightPlans)
                        : w1 \in SendTrackPlansLoop(w0, c, tracon, simTime,
                                                    DOMAIN w0.eram[c].TrackInformation) } }

-----------------------------------------------------------------------------
(* STARSComputer.SortReceivedMessages *)

TransferAcceptedEvent == "TransferAccepted"
TransferRejectedEvent == "TransferRejected"

Event(type, callsign, to) == [Type |-> type, Callsign |-> callsign, ToController |-> to]

\* e.Post(event)
Post(w, ev) == [w EXCEPT !.events = Append(@, ev)]

\* case InitiateTransfer that leaves the plan in ContainedPlans
STARSInitiateTransferKeepsPlan(w, t, msg) ==
    LET comp == w.stars[t]
    IN IF msg.BCN \in DOMAIN comp.ContainedPlans /\ comp.ContainedPlans[msg.BCN] # NilPlan
       THEN Post([w EXCEPT
                    !.stars[t].TrackInformation =
                        MapSet(@, msg.Identifier,
                               TrackInfo("", msg.TrackOwner, msg.HandoffController,
                                         comp.ContainedPlans[msg.BCN]))],
                 Event(TransferAcceptedEvent, msg.Identifier, msg.TrackOwner))
       ELSE IF msg.Identifier \in DOMAIN comp.TrackInformation
       THEN Post([w EXCEPT
                    !.stars[t].TrackInformation =
                        MapSet(@, msg.Identifier,
                               TrackInfo("", msg.TrackOwner, msg.HandoffController,
                                         comp.TrackInformation[msg.Identifier].FlightPlan))],
                 Event(TransferAcceptedEvent, msg.Identifier, msg.TrackOwner))
       ELSE Post(w, Event(TransferRejectedEvent, msg.Identifier, msg.TrackOwner))

\* case InitiateTransfer that deletes the squawk's entry of ContainedPlans and
\* starts a track without a plan when it rejects
STARSInitiateTransferRejectTracks(w, t, msg) ==
    LET comp == w.stars[t]
    IN IF msg.BCN \in DOMAIN comp.ContainedPlans /\ comp.ContainedPlans[msg.BCN] # NilPlan
       THEN Post([w EXCEPT
                    !.stars[t].TrackInformation =
                        MapSet(@, msg.Identifier,
                               TrackInfo("", msg.TrackOwner, msg.HandoffController,
                                         comp.ContainedPlans[msg.BCN])),
                    !.stars[t].ContainedPlans = MapDel(@, msg.BCN)],
                 Event(TransferAcceptedEvent, msg.Identifier, msg.TrackOwner))
       ELSE IF msg.Identifier \in DOMAIN comp.TrackInformation
       THEN Post([w EXCEPT
                    !.stars[t].TrackInformation =
                        MapSet(@, msg.Identifier,
                               TrackInfo("", msg.TrackOwner, msg.HandoffController,
                                         comp.TrackInformation[msg.Identifier].FlightPlan)),
                    !.stars[t].ContainedPlans = MapDel(@, msg.BCN)],
                 Event(TransferAcceptedEvent, msg.Identifier, msg.TrackOwner))
       ELSE Post([w EXCEPT
                    !.stars[t].TrackInformation =
                        MapSet(@, msg.Identifier,
                               TrackInfo("", msg.TrackOwner, msg.HandoffController, NilPlan))],
                 Event(TransferRejectedEvent, msg.Identifier, msg.TrackOwner))

\* case InitiateTransfer, nas.go:445-485
STARSInitiateTransfer(w, t, msg) ==
    LET comp == w.stars[t]
    IN IF msg.BCN \in DOMAIN comp.ContainedPlans /\ comp.ContainedPlans[msg.BCN] # NilPlan
       THEN Post([w EXCEPT
                    !.stars[t].TrackInformation =
                        MapSet(@, msg.Identifier,
                               TrackInfo("", msg.TrackOwner, msg.HandoffController,
                                         comp.ContainedPlans[msg.BCN])),
                    !.stars[t].ContainedPlans = MapDel(@, msg.BCN)],
                 Event(TransferAcceptedEvent, msg.Identifier, msg.TrackOwner))
       ELSE IF msg.Identifier \in DOMAIN comp.TrackInformation
       THEN Post([w EXCEPT
                    !.stars[t].TrackInformation =
                        MapSet(@, msg.Identifier,
                               TrackInfo("", msg.TrackOwner, msg.HandoffController,
                                         comp.TrackInformation[msg.Identifier].FlightPlan)),
                    !.stars[t].ContainedPlans = MapDel(@, msg.BCN)],
                 Event(TransferAcceptedEvent, msg.Identifier, msg.TrackOwner))
       ELSE Post(w, Event(TransferRejectedEvent, msg.Identifier, msg.TrackOwner))

\* case AcceptRecallTransfer that takes every message for an accept
STARSAcceptRecallTransferAlwaysAccepts(w, t, msg) ==
    IF msg.Identifier \notin DOMAIN w.stars[t].TrackInformation THEN w
    ELSE [w EXCEPT !.stars[t].TrackInformation =
                       MapSet(@, msg.Identifier,
                              [w.stars[t].TrackInformation[msg.Identifier] EXCEPT
                                  !.TrackOwner = msg.TrackOwner, !.HandoffController = ""])]

\* case AcceptRecallTransfer, nas.go:487-509
STARSAcceptRecallTransfer(w, t, msg) ==
    LET comp == w.stars[t]
    IN IF msg.Identifier \notin DOMAIN comp.TrackInformation THEN w
       ELSE IF msg.TrackOwner # comp.TrackInformation[msg.Identifier].TrackOwner
       THEN [w EXCEPT !.stars[t].TrackInformation =
                          MapSet(@, msg.Identifier,
                                 [comp.TrackInformation[msg.Identifier] EXCEPT
                                     !.TrackOwner = msg.TrackOwner, !.HandoffController = ""])]
       ELSE [w EXCEPT !.stars[t].TrackInformation = MapDel(@, msg.Identifier)]

\* case Plan that stores the plan whatever its squawk
STARSPlanStoresZero(w, t, msg) ==
    LET a == NewPlan(w, FlightPlan(msg))
    IN [a[1] EXCEPT !.stars[t].ContainedPlans = MapSet(@, msg.BCN, a[2])]

\* case Plan, nas.go:434-437
STARSPlan(w, t, msg) ==
    IF msg.BCN # 0
    THEN LET a == NewPlan(w, FlightPlan(msg))
         IN [a[1] EXCEPT !.stars[t].ContainedPlans = MapSet(@, msg.BCN, a[2])]
    ELSE w

\* case Amendment that does nothing for a zero squawk
STARSAmendmentSkipsZero(w, t, msg) ==
    IF msg.BCN # 0
    THEN LET a == NewPlan(w, FlightPlan(msg))
         IN [a[1] EXCEPT !.stars[t].ContainedPlans = MapSet(@, msg.BCN, a[2])]
    ELSE w

\* case Amendment, nas.go:439-440
STARSAmendment(w, t, msg) ==
    LET a == NewPlan(w, FlightPlan(msg))
    IN [a[1] EXCEPT !.stars[t].ContainedPlans = MapSet(@, msg.BCN, a[2])]

\* case Cancellation, nas.go:442-443
STARSCancellation(w, t, msg) ==
    [w EXCEPT !.stars[t].ContainedPlans = MapDel(@, msg.BCN)]

\* the switch of SortReceivedMessages on one message
STARSHandle(w, t, msg) ==
    CASE msg.MessageType = Plan -> STARSPlan(w, t, msg)
      [] msg.MessageType = Amendment -> STARSAmendment(w, t, msg)
      [] msg.MessageType = Cancellation -> STARSCancellation(w, t, msg)
      [] msg.MessageType = InitiateTransfer -> STARSInitiateTransfer(w, t, msg)
      [] msg.MessageType = AcceptRecallTransfer -> STARSAcceptRecallTransfer(w, t, msg)
      [] OTHER -> w

RECURSIVE STARSSortLoop(_, _, _)
STARSSortLoop(w, t, msgs) ==
    IF msgs = <<>> THEN w
    ELSE LET w2 == STARSHandle(w, t, Head(msgs))
         IN STARSSortLoop([w2 EXCEPT !.steps = Append(@, Step(t, Head(msgs), w, w2,
                                                            w.stars[t], w2.stars[t],
                                                            Len(msgs) - 1))],
                          t, Tail(msgs))

\* func (comp *STARSComputer) SortReceivedMessages(e *EventStream)
SortReceivedMessages(w, t) ==
    LET w0 == Begin(w, "SortReceivedMessages")
        w1 == STARSSortLoop(w0, t, w0.stars[t].ReceivedMessages)
        w2 == [w1 EXCEPT !.stars[t].ReceivedMessages = Clear(@)]
    IN Returned(w2, "SortReceivedMessages", t, w2.stars[t].ReceivedMessages)

-----------------------------------------------------------------------------
(* ERAMComputers.Update *)

\* the loop over comp.STARSComputers, nas.go:764-766
RECURSIVE UpdateSTARSLoop(_, _)
UpdateSTARSLoop(w, left) ==
    IF left = {} THEN {w}
    ELSE UNION { UpdateSTARSLoop(SortReceivedMessages(w, t), left \ {t}) : t \in left }

\* the body of the loop of Update for one center that sorts the terminal
\* facilities' messages before the center's own
UpdateCenterTerminalsFirst(w, c, tracon, simTime) ==
    UNION { UNION { SendFlightPlans(w2, c, tracon, simTime)
                    : w2 \in IF w1.fault # "" THEN {} ELSE SortMessages(w1, c, simTime) }
            : w1 \in UpdateSTARSLoop(w, STARSComputers(c)) }

\* the body of the loop of Update for one center, nas.go:762-766
UpdateCenter(w, c, tracon, simTime) ==
    UNION { IF w1.fault # "" THEN {w1}
            ELSE UNION { UpdateSTARSLoop(w2, STARSComputers(c))
                         : w2 \in SendFlightPlans(w1, c, tracon, simTime) }
            : w1 \in SortMessages(w, c, simTime) }

\* the loop over ec.Computers, nas.go:761-767
RECURSIVE UpdateLoop(_, _, _, _)
UpdateLoop(w, tracon, simTime, left) ==
    IF left = {} \/ w.fault # "" THEN {w}
    ELSE UNION { UNION { UpdateLoop(w1, tracon, simTime, left \ {c})
                         : w1 \in UpdateCenter(w, c, tracon, simTime) }
                 : c \in left }

\* func (ec *ERAMComputers) Update(tracon, simTime, e, lg)
UpdateWorlds(w, tracon, simTime) == UpdateLoop(w, tracon, simTime, Centers)

-----------------------------------------------------------------------------
(* Construction: MakeERAMComputers *)

\* func MakeSTARSComputer(id, sq); the squawk map sq is the center's bank[...]
MakeSTARSComputer(id) ==
    [ReceivedMessages |-> <<>>, ContainedPlans |-> EmptyMap,
     TrackInformation |-> EmptyMap, UnsupportedTracks |-> <<>>]

\* func MakeERAMComputer(fac, adapt, starsBeaconBank)
MakeERAMComputer(fac) ==
    [ReceivedMessages |-> <<>>, FlightPlans |-> EmptyMap,
     TrackInformation |-> EmptyMap, AvailableSquawks |-> getValidSquawkCodes]

Pools == {<<kind, c>> : kind \in {"NAS", "bank"}, c \in Centers}

NoOp == [op |-> "", arg |-> <<>>, ret |-> <<>>, steps |-> <<>>, delivered |-> <<>>,
         phases |-> <<>>, warnings |-> <<>>]

\* a channel variable that was never made, panes/radartools.go (part_000:1147)
NilChan == [made |-> FALSE, closed |-> FALSE, buf |-> <<>>]

\* the zero WeatherRadar
ZeroRadar == [active |-> FALSE, reqChan |-> NilChan]

Goroutines == 1 .. NumGoroutines
LoggingMutexes == 1 .. NumMutexes

\* a goroutine that is in neither Lock nor Unlock and holds no LoggingMutex
Outside == [at |-> "out", l |-> 0]

\* the state MakeERAMComputers leaves, before any operation
Constructed ==
    /\ adaptName \in AdaptationNames
    /\ eram = [c \in Centers |-> MakeERAMComputer(c)]
    /\ stars = [t \in Tracons |-> MakeSTARSComputer(t)]
    /\ bank = [c \in Centers |-> getBeaconBankSquawks(StarsBeaconBank)]
    /\ heap = <<>>
    /\ events = <<>>
    /\ fault = ""
    /\ now = 0
    /\ ticks = 0
    /\ sends = 0
    /\ allocs = 0
    /\ issued = [p \in Pools |-> [codes |-> <<>>, released |-> FALSE]]
    /\ radar = ZeroRadar
    /\ Mutex = [l \in LoggingMutexes |-> FALSE]
    /\ heldMutexesMutex = FALSE
    /\ heldMutexes = {}
    /\ pc = [g \in Goroutines |-> Outside]
    /\ notHeld = {}

Init == Constructed /\ last = NoOp

World ==
    [eram |-> eram, stars |-> stars, bank |-> bank, heap |-> heap, events |-> events,
     fault |-> fault, steps |-> <<>>, delivered |-> <<>>, phases |-> <<>>, cur |-> "",
     warnings |-> <<>>]

\* the AvailableSquawks of a terminal facility's STARSComputer: the map its
\* center made and handed to each of its terminal facilities
STARSAvailableSquawks(t) == bank[TRACONs[t]]

\* the pool a key of issued names, in a world
PoolOf(w, p) == IF p[1] = "NAS" THEN w.eram[p[2]].AvailableSquawks ELSE w.bank[p[2]]

\* the variables after an operation that ended in world w
Becomes(w, op, arg, ret) ==
    /\ eram' = w.eram
    /\ stars' = w.stars
    /\ bank' = w.bank
    /\ heap' = w.heap
    /\ events' = w.events
    /\ fault' = w.fault
    /\ last' = [op |-> op, arg |-> arg, ret |-> ret, steps |-> w.steps,
                delivered |-> w.delivered, phases |-> w.phases, warnings |-> w.warnings]
    /\ issued' = [p \in Pools |->
                    IF PoolOf(w, p) \ PoolOf(World, p) # {}
                    THEN [codes |-> <<>>, released |-> TRUE]
                    ELSE IF op = "CreateSquawk" /\ arg = p /\ ret[2] = ""
                    THEN [issued[p] EXCEPT !.codes = Append(@, ret[1])]
                    ELSE issued[p]]
    /\ UNCHANGED adaptName
    /\ UNCHANGED <<radar, sync>>

-----------------------------------------------------------------------------
(* The inputs explored *)

Identifiers == {"AAL1", "UAL2"}
Controllers == {"1A", "2B"}

ECIDs == {<<"0", "1", "A">>}
Callsigns == {<<"A", "A", "L", "1">>}

PlanMessage(type, bcn, fix, t, alt) ==
    [ZeroMessage EXCEPT
        !.MessageType = type, !.BCN = bcn, !.CoordinationFix = fix,
        !.CoordinationTime = [Time |-> t, Type |-> "P"], !.Altitude = alt,
        !.Route = "F1 F2", !.FlightID = <<"0", "1", "A", "A", "A", "L", "1">>,
        !.AircraftData = [ZeroAircraftData EXCEPT !.AircraftType = <<"B738">>,
                                                  !.NumberOfAircraft = 1]]

TrackMessage(type, bcn, id, owner, hc, fix) ==
    [ZeroMessage EXCEPT
        !.MessageType = type, !.BCN = bcn, !.Identifier = id, !.TrackOwner = owner,
        !.HandoffController = hc, !.CoordinationFix = fix]

\* messages submitted to a center's inbox
CenterInputs ==
    {PlanMessage(Plan, 0, "F1", 0, "110"), PlanMessage(Plan, Q1, "", 0, "110"),
     PlanMessage(Plan, Q1, "F1", 0, "110"), PlanMessage(Plan, Q1, "F1", 90, "110"),
     PlanMessage(Plan, Q1, "F2", 0, "110"), PlanMessage(Plan, Q1, "F1", 0, "VFR/55"),
     [ZeroMessage EXCEPT !.MessageType = DepartureDM, !.BCN = Q1]}
    \cup {TrackMessage(InitiateTransfer, Q1, "AAL1", "1A", "2B", fix) : fix \in {"F1", "F2"}}
    \cup {TrackMessage(AcceptRecallTransfer, Q1, "AAL1", owner, "", "F1")
             : owner \in Controllers}

\* messages submitted to a terminal facility's inbox
TerminalInputs ==
    {PlanMessage(Plan, 0, "F1", 0, "110"), PlanMessage(Plan, Q1, "F1", 0, "110"),
     PlanMessage(Amendment, Q1, "F2", 0, "110"), PlanMessage(Amendment, 0, "F1", 0, "110"),
     [ZeroMessage EXCEPT !.MessageType = Cancellation, !.BCN = Q1],
     [ZeroMessage EXCEPT !.MessageType = BeaconTerminate, !.BCN = Q1],
     TrackMessage(InitiateTransfer, Q1, "AAL1", "1A", "2B", "F1")}
    \cup {TrackMessage(AcceptRecallTransfer, Q1, "AAL1", owner, "", "F1")
             : owner \in Controllers}

\* messages submitted to a center while squawk codes are created
SquawkInputs ==
    {PlanMessage(Plan, Q1, "F2", 0, "110"),
     TrackMessage(InitiateTransfer, Q1, "AAL1", "1A", "2B", "F2"),
     TrackMessage(AcceptRecallTransfer, Q1, "AAL1", "1A", "", "F2")}

\* the tracon argument of Update and the simulated time between two Updates
UpdateTracons == {"N90"}
TickMinutes == {30}

-----------------------------------------------------------------------------
(* Operations *)

Running == fault = ""

\* the code CreateSquawk takes away once it is chosen
TakeKeepsCode(pool, sq) == pool
Take(pool, sq) == pool \ {sq}

\* func (comp *ERAMComputer) CreateSquawk() (av.Squawk, error)
ERAMCreateSquawk(c) ==
    /\ Running /\ allocs < MaxAllocs
    /\ allocs' = allocs + 1
    /\ IF eram[c].AvailableSquawks = {}
       THEN Becomes(World, "CreateSquawk", <<"NAS", c>>, <<0, ErrNoMoreAvailableSquawkCodes>>)
       ELSE \E sq \in eram[c].AvailableSquawks :
               Becomes([World EXCEPT !.eram[c].AvailableSquawks = Take(@, sq)],
                       "CreateSquawk", <<"NAS", c>>, <<sq, "">>)
    /\ UNCHANGED <<now, ticks, sends>>

\* func (comp *STARSComputer) CreateSquawk() (av.Squawk, error)
STARSCreateSquawk(t) ==
    /\ Running /\ allocs < MaxAllocs
    /\ allocs' = allocs + 1
    /\ IF bank[TRACONs[t]] = {}
       THEN Becomes(World, "CreateSquawk", <<"bank", TRACONs[t]>>,
                    <<0, ErrNoMoreAvailableSquawkCodes>>)
       ELSE \E sq \in bank[TRACONs[t]] :
               Becomes([World EXCEPT !.bank[TRACONs[t]] = Take(@, sq)],
                       "CreateSquawk", <<"bank", TRACONs[t]>>, <<sq, "">>)
    /\ UNCHANGED <<now, ticks, sends>>

\* func (comp *STARSComputer) SendToOverlyingERAMFacility(msg)
SendToOverlyingERAMFacility(w, t, msg) ==
    Deliver([w EXCEPT !.eram[TRACONs[t]].ReceivedMessages = Append(@, msg)],
            t, TRACONs[t], msg)

\* func (comp *STARSComputer) SendTrackInfo(receivingFacility, msg, simTime)
SendTrackInfo(w, t, receivingFacility, msg, simTime) ==
    LET m == [msg EXCEPT !.SourceID = formatSourceID(t, simTime)]
    IN IF receivingFacility \in STARSInbox(t)
       THEN Deliver([w EXCEPT !.stars[receivingFacility].ReceivedMessages = Append(@, m)],
                    t, receivingFacility, m)
       ELSE SendToOverlyingERAMFacility(w, t, m)

\* func (comp *STARSComputer) RequestFlightPlan(bcn, simTime)
RequestFlightPlanMessage(t, bcn, simTime) ==
    [ZeroMessage EXCEPT !.MessageType = RequestFlightPlan, !.BCN = bcn,
                        !.SourceID = formatSourceID(t, simTime)]

CallSendToOverlyingERAMFacility(t, msg) ==
    /\ Running /\ sends < MaxSends
    /\ sends' = sends + 1
    /\ Becomes(SendToOverlyingERAMFacility(World, t, msg),
               "SendToOverlyingERAMFacility", <<t, msg>>, <<>>)
    /\ UNCHANGED <<now, ticks, allocs>>

CallSendTrackInfo(t, receivingFacility, msg) ==
    /\ Running /\ sends < MaxSends
    /\ sends' = sends + 1
    /\ Becomes(SendTrackInfo(World, t, receivingFacility, msg, now),
               "SendTrackInfo", <<t, receivingFacility, msg>>, <<>>)
    /\ UNCHANGED <<now, ticks, allocs>>

CallRequestFlightPlan(t, bcn) ==
    /\ Running /\ sends < MaxSends
    /\ sends' = sends + 1
    /\ Becomes(SendToOverlyingERAMFacility(World, t, RequestFlightPlanMessage(t, bcn, now)),
               "RequestFlightPlan", <<t, bcn>>, <<>>)
    /\ UNCHANGED <<now, ticks, allocs>>

\* func (comp *STARSComputer) AddTrackInformation(callsign, info)
AddTrackInformation(w, t, callsign, info) ==
    [w EXCEPT !.stars[t].TrackInformation = MapSet(@, callsign, info)]

CallAddTrackInformation(t, callsign, info) ==
    /\ Running /\ sends < MaxSends
    /\ sends' = sends + 1
    /\ Becomes(AddTrackInformation(World, t, callsign, info),
               "AddTrackInformation", <<t, callsign, info>>, <<>>)
    /\ UNCHANGED <<now, ticks, allocs>>

\* one call of Update for the given tracon
UpdateAt(tracon) ==
    /\ Running /\ ticks < MaxTicks
    /\ \E dt \in TickMinutes :
          /\ now' = now + dt
          /\ \E w \in UpdateWorlds(World, tracon, now + dt) :
                Becomes(w, "Update", <<tracon, now + dt>>, <<>>)
    /\ ticks' = ticks + 1
    /\ UNCHANGED <<sends, allocs>>

\* one call of Update by the simulation loop
Update == \E tracon \in UpdateTracons : UpdateAt(tracon)

\* traffic submitted to the centers
NextCenter ==
    \/ \E t \in {"N90", "A90"}, msg \in CenterInputs : CallSendToOverlyingERAMFacility(t, msg)
    \/ \E t \in {"N90", "A90"} : CallRequestFlightPlan(t, Q1)
    \/ Update

InitCenter == Init

SpecCenter == InitCenter /\ [][NextCenter]_vars

\* traffic submitted to the terminal facilities
NextTerminal ==
    \/ \E r \in {"N90", "PHL"}, msg \in TerminalInputs : CallSendTrackInfo("A90", r, msg)
    \/ CallSendToOverlyingERAMFacility("A90", PlanMessage(Plan, 0, "F1", 0, "110"))
    \/ \E id \in Identifiers, o \in Controllers :
          \E fp \in {NilPlan} \cup {stars["N90"].ContainedPlans[q] :
                                      q \in DOMAIN stars["N90"].ContainedPlans} :
             CallAddTrackInformation("N90", id, TrackInfo(id, o, "2B", fp))
    \/ Update

InitTerminal == Init /\ adaptName = "relay"

SpecTerminal == InitTerminal /\ [][NextTerminal]_vars

\* squawk codes created while transfers pass through the centers
NextSquawk ==
    \/ \E c \in Centers : ERAMCreateSquawk(c)
    \/ \E t \in Tracons : STARSCreateSquawk(t)
    \/ \E msg \in SquawkInputs : CallSendToOverlyingERAMFacility("N90", msg)
    \/ Update

InitSquawk == Init /\ adaptName = "relay"

SpecSquawk == InitSquawk /\ [][NextSquawk]_vars

\* messages of a transfer submitted to a center in one batch
TransferInputs ==
    {PlanMessage(Plan, Q1, "F1", 0, "110"), PlanMessage(Plan, Q1, "", 0, "VFR/55"),
     PlanMessage(Plan, Q1, "F1", 0, "VFR/55"),
     TrackMessage(InitiateTransfer, Q1, "AAL1", "1A", "2B", "F1")}
    \cup {TrackMessage(AcceptRecallTransfer, Q1, "AAL1", owner, "", fix)
             : owner \in Controllers, fix \in {"F1", "F2"}}
    \cup {TrackMessage(AcceptRecallTransfer, VFRCode, "AAL1", owner, "", "F1")
             : owner \in Controllers}

CallSendTransferMessage(t, msg) ==
    /\ Running /\ sends < MaxBatch
    /\ sends' = sends + 1
    /\ Becomes(SendToOverlyingERAMFacility(World, t, msg),
               "SendToOverlyingERAMFacility", <<t, msg>>, <<>>)
    /\ UNCHANGED <<now, ticks, allocs>>

\* the plan, the transfer and the accept or recall of one flight, submitted to
\* its center
NextTransfer ==
    \/ \E msg \in TransferInputs : CallSendTransferMessage("N90", msg)
    \/ Update

InitTransfer == Init

SpecTransfer == InitTransfer /\ [][NextTransfer]_vars

-----------------------------------------------------------------------------
(* Deleting an aircraft *)

\* the loop of CompletelyDeleteAircraft over a TrackInformation map: what is
\* left of the map
WithoutTracksOf(ti, plans, ac) ==
    LET gone == {id \in DOMAIN ti :
                    /\ ti[id].FlightPlan # NilPlan
                    /\ \/ plans[ti[id].FlightPlan].Callsign = ac.Callsign
                       \/ plans[ti[id].FlightPlan].AssignedSquawk = ac.Squawk}
    IN [id \in DOMAIN ti \ gone |-> ti[id]]

\* func (comp *STARSComputer) CompletelyDeleteAircraft(ac)
STARSCompletelyDeleteAircraft(w, t, ac) ==
    [w EXCEPT !.stars[t].TrackInformation = WithoutTracksOf(@, w.heap, ac)]

\* the loop over comp.STARSComputers, nas.go:329-331
RECURSIVE DeleteAtSTARSLoop(_, _, _)
DeleteAtSTARSLoop(w, ac, left) ==
    IF left = {} THEN w
    ELSE LET t == CHOOSE t \in left : TRUE
         IN DeleteAtSTARSLoop(STARSCompletelyDeleteAircraft(w, t, ac), ac, left \ {t})

\* func (comp *ERAMComputer) CompletelyDeleteAircraft(ac)
ERAMCompletelyDeleteAircraft(w, c, ac) ==
    DeleteAtSTARSLoop([w EXCEPT !.eram[c].TrackInformation = WithoutTracksOf(@, w.heap, ac)],
                      ac, STARSComputers(c))

\* func (ec *ERAMComputers) CompletelyDeleteAircraft(ac)
RECURSIVE CompletelyDeleteAircraft(_, _, _)
CompletelyDeleteAircraft(w, ac, left) ==
    IF left = {} THEN w
    ELSE LET c == CHOOSE c \in left : TRUE
         IN CompletelyDeleteAircraft(ERAMCompletelyDeleteAircraft(w, c, ac), ac, left \ {c})

\* the aircraft that are deleted
Aircraft ==
    {[Callsign |-> cs, Squawk |-> sq] : cs \in Callsigns \cup {<<"U", "A", "L", "2">>},
                                       sq \in {Q1, Q2}}

CallCompletelyDeleteAircraft(ac) ==
    /\ Running
    /\ Becomes(CompletelyDeleteAircraft(World, ac, Centers),
               "CompletelyDeleteAircraft", <<ac>>, <<>>)
    /\ UNCHANGED <<now, ticks, sends, allocs>>

\* messages sent to a terminal facility that has created squawk codes
ReleaseInputs ==
    {PlanMessage(Plan, Q1, "F1", 0, "110"),
     [ZeroMessage EXCEPT !.MessageType = Cancellation, !.BCN = Q1],
     TrackMessage(InitiateTransfer, Q1, "AAL1", "1A", "2B", "F1"),
     TrackMessage(AcceptRecallTransfer, Q1, "AAL1", "1A", "", "F1")}

\* squawk codes created, then plans cancelled, tracks recalled and aircraft
\* deleted
NextRelease ==
    \/ ERAMCreateSquawk("ZNY")
    \/ STARSCreateSquawk("N90")
    \/ \E msg \in ReleaseInputs : CallSendTrackInfo("A90", "N90", msg)
    \/ CallAddTrackInformation("N90", "AAL1", TrackInfo("AAL1", "1A", "2B", NilPlan))
    \/ \E ac \in Aircraft : CallCompletelyDeleteAircraft(ac)
    \/ Update

InitRelease == Init /\ adaptName = "relay"

SpecRelease == InitRelease /\ [][NextRelease]_vars

-----------------------------------------------------------------------------
(* Plans transmitted for each terminal facility the simulation can run *)

\* plans submitted to the centers
TimedInputs ==
    {PlanMessage(Plan, Q1, "F1", 0, "110"), PlanMessage(Plan, Q1, "F1", 90, "110"),
     PlanMessage(Plan, Q2, "F2", 0, "110"), PlanMessage(Plan, Q1, "", 0, "110")}

NextTimed ==
    \/ \E t \in {"N90", "A90"}, msg \in TimedInputs : CallSendToOverlyingERAMFacility(t, msg)
    \/ \E tracon \in Tracons : UpdateAt(tracon)

InitTimed == Init

SpecTimed == InitTimed /\ [][NextTimed]_vars

-----------------------------------------------------------------------------
(* Track messages addressed by name *)

\* messages handed to SendTrackInfo
AddressingInputs ==
    {PlanMessage(Plan, Q1, "F1", 0, "110"),
     TrackMessage(InitiateTransfer, Q1, "AAL1", "1A", "2B", "F1")}

\* every terminal facility sends to every name
NextAddressing ==
    \/ \E t \in Tracons, r \in FacilityNames, msg \in AddressingInputs :
          CallSendTrackInfo(t, r, msg)
    \/ Update

InitAddressing == Init /\ adaptName = "relay"

SpecAddressing == InitAddressing /\ [][NextAddressing]_vars

-----------------------------------------------------------------------------
(* The registry and the conversions, called on given arguments *)

\* FacilityComputers that looks an identifier up among the terminal facilities
\* only
FacilityComputersTerminalsOnly(w, fac) ==
    IF fac \notin DOMAIN TRACONs
    THEN [eram |-> "", stars |-> "", err |-> ErrUnknownFacility, fault |-> ""]
    ELSE [eram |-> TRACONs[fac], stars |-> fac, err |-> "", fault |-> ""]

\* func (ec *ERAMComputers) FacilityComputers(fac): the computers returned are
\* named by their identifiers, "" for nil
FacilityComputers(w, fac) ==
    IF fac \in DOMAIN w.eram
    THEN [eram |-> fac, stars |-> "", err |-> "", fault |-> ""]
    ELSE IF fac \notin DOMAIN TRACONs
    THEN [eram |-> "", stars |-> "", err |-> ErrUnknownFacility, fault |-> ""]
    ELSE IF TRACONs[fac] \notin DOMAIN w.eram
    THEN [eram |-> "", stars |-> "", err |-> "", fault |-> "no ERAM computer found"]
    ELSE IF fac \notin STARSComputers(TRACONs[fac])
    THEN [eram |-> "", stars |-> "", err |-> "", fault |-> "no STARS computer found"]
    ELSE [eram |-> TRACONs[fac], stars |-> fac, err |-> "", fault |-> ""]

\* the messages the conversions are called on
MessageInputs ==
    {[ZeroMessage EXCEPT !.BCN = bcn, !.Route = route, !.Altitude = alt,
                         !.CoordinationFix = fix, !.CoordinationTime = t, !.FlightID = id]
        : bcn \in BCNs, route \in {"", "F1 F2"}, alt \in {"", "110", "VFR/55"},
          fix \in {"", "F1"}, t \in {NoTime, [Time |-> 90, Type |-> "P"]},
          id \in {<<>>, <<"0", "1", "A">>, <<"0", "1", "A", "A", "A", "L", "1">>}}

\* the plans the conversions are called on
PlanInputs ==
    {[ZeroPlan EXCEPT !.AssignedSquawk = bcn, !.Route = route, !.Altitude = alt,
                      !.CoordinationFix = fix, !.CoordinationTime = t,
                      !.ECID = ecid, !.Callsign = cs, !.Rules = rules]
        : bcn \in BCNs, route \in {"", "F1 F2"}, alt \in {"", "110", "VFR/55"},
          fix \in {"", "F1"}, t \in {NoTime, [Time |-> 90, Type |-> "P"]},
          ecid \in {<<>>} \cup ECIDs, cs \in {<<>>} \cup Callsigns, rules \in {IFR, VFR}}

\* the argument a call is about to be made on
Given(kind, x) == [NoOp EXCEPT !.op = kind, !.arg = x]

Returns(op, arg, ret) ==
    /\ last' = [NoOp EXCEPT !.op = op, !.arg = arg, !.ret = ret]
    /\ UNCHANGED <<nas, radar, sync>>

\* m.FlightPlan().Message()
CallFlightPlanMessage ==
    /\ Running /\ last.op = "message"
    /\ Returns("FlightPlan.Message", last.arg, Message(FlightPlan(last.arg)))
    /\ UNCHANGED fault

\* p.Message().FlightPlan()
CallMessageFlightPlan ==
    /\ Running /\ last.op = "plan"
    /\ Returns("Message.FlightPlan", last.arg, FlightPlan(Message(last.arg)))
    /\ UNCHANGED fault

\* ec.FacilityComputers(fac)
CallFacilityComputers ==
    /\ Running /\ last.op = "facility"
    /\ LET r == FacilityComputers(World, last.arg)
       IN /\ Returns("FacilityComputers", last.arg, <<r.eram, r.stars, r.err>>)
          /\ fault' = r.fault

NextCalls ==
    \/ CallFlightPlanMessage
    \/ CallMessageFlightPlan
    \/ CallFacilityComputers

InitCalls ==
    /\ Constructed
    /\ last \in {Given("message", m) : m \in MessageInputs}
              \cup {Given("plan", fp) : fp \in PlanInputs}
              \cup {Given("facility", fac) : fac \in FacilityNames}

SpecCalls == InitCalls /\ [][NextCalls]_vars

-----------------------------------------------------------------------------
(* ParseAbbreviatedFPFields.  A token is the sequence of its bytes, each a    *)
(* one-character string; the two bytes of STARSTriangleCharacter are written  *)
(* "<C2>" and "<80>".                                                         *)

Letters == {"A", "B", "C", "D", "E", "L", "N", "P", "R", "S", "T", "U", "V", "X"}
Digits == {"0", "1", "2", "3", "4", "5", "6", "7", "8", "9"}

\* unicode.IsLetter(rune(b)) on a byte b of a string: rune(0xC2) is the letter
\* U+00C2, rune(0x80) the control character U+0080
IsLetter(b) == b \in Letters \cup {"<C2>"}

\* util.IsAllNumbers, util.IsAllLetters, which range over the characters
IsAllNumbers(s) == \A i \in 1 .. Len(s) : s[i] \in Digits
IsAllLetters(s) == \A i \in 1 .. Len(s) : s[i] \in Letters

\* the value of a string of octal digits
RECURSIVE OctalValue(_, _)
OctalValue(cs, acc) ==
    IF cs = <<>> THEN acc
    ELSE OctalValue(Tail(cs),
                    8 * acc + (CHOOSE d \in 0 .. 7 :
                                  Head(cs) = <<"0", "1", "2", "3", "4", "5", "6", "7">>[d + 1]))

\* av.ParseSquawk(s): <<ok, squawk>>
ParseSquawk(s) ==
    IF s # <<>> /\ (\A i \in 1 .. Len(s) : s[i] \in {"0", "1", "2", "3", "4", "5", "6", "7"})
       /\ OctalValue(s, 0) <= \o7777
    THEN <<TRUE, OctalValue(s, 0)>>
    ELSE <<FALSE, 0>>

\* strings.Split(s, "/")
RECURSIVE SplitOnSlash(_, _, _)
SplitOnSlash(cs, cur, acc) ==
    IF cs = <<>> THEN Append(acc, cur)
    ELSE IF Head(cs) = "/" THEN SplitOnSlash(Tail(cs), <<>>, Append(acc, cur))
    ELSE SplitOnSlash(Tail(cs), Append(cur, Head(cs)), acc)

\* strings.HasPrefix(s, prefix)
HasPrefix(s, prefix) == Len(prefix) <= Len(s) /\ SubSeq(s, 1, Len(prefix)) = prefix

\* const STARSTriangleCharacter = string(rune(0x80)): two bytes in UTF-8
STARSTriangleCharacter == <<"<C2>", "<80>">>

\* the keys of av.DB.AircraftPerformance
AircraftPerformance == {<<"B", "7", "3", "8">>}

\* badScratchpads, nas.go:968
badScratchpads ==
    {<<"N", "A", "T">>, <<"C", "S", "T">>, <<"A", "M", "B">>, <<"R", "D", "R">>,
     <<"A", "D", "B">>, <<"X", "X", "X">>}

ErrIllegalACID == "ILL ACID"
ErrIllegalScratchpad == "ILL SCR"
ErrIllegalACType == "ILL TYPE"
ErrInvalidAbbreviatedFP == "FORMAT"

\* the zero av.FlightRules: no rules set
NoRules == ""

\* output := AbbreviatedFPFields{}; fault is the panic that ended the call
ZeroFields ==
    [ACID |-> <<>>, BCN |-> 0, ControllingPosition |-> <<>>, TypeOfFlight |-> "",
     SC1 |-> <<>>, SC2 |-> <<>>, AircraftType |-> <<>>, RequestedALT |-> <<>>,
     Rules |-> NoRules, DepartureAirport |-> <<>>, Error |-> "", fault |-> ""]

\* what the loop does after a field: go on with the next field, or return
Continue(out) == [out |-> out, return |-> FALSE]
Return(out) == [out |-> out, return |-> TRUE]

\* the body of a scratchpad test, nas.go:971-978 and 981-988: slot names the
\* field that takes the token; fall is TRUE when the body ran to its end
ScratchpadBody(out, field, slot) ==
    IF field \in badScratchpads
    THEN [out |-> [out EXCEPT !.Error = ErrIllegalScratchpad], return |-> TRUE, fall |-> FALSE]
    ELSE IF Len(field) < 3
    THEN [out |-> [out EXCEPT !.fault = "slice bounds out of range"],
          return |-> TRUE, fall |-> FALSE]
    ELSE LET o1 == IF IsAllNumbers(SubSeq(field, Len(field) - 2, Len(field)))
                   THEN [out EXCEPT !.Error = ErrIllegalScratchpad]
                   ELSE out
         IN [out |-> [o1 EXCEPT ![slot] = field], return |-> FALSE, fall |-> TRUE]

\* the aircraft type test, nas.go:990-1038, for a field of 4 bytes or more
AircraftTypeField(out, field) ==
    LET acFields == SplitOnSlash(field, <<>>, <<>>)
    IN CASE Len(acFields) = 1 ->
              IF field \notin AircraftPerformance
              THEN Continue([out EXCEPT !.Error = ErrIllegalACType])
              ELSE Continue([out EXCEPT !.AircraftType = field])
         [] Len(acFields) = 2 ->
              IF IsAllNumbers(acFields[1])
              THEN IF acFields[2] = <<>>
                   THEN Return([out EXCEPT !.fault = "index out of range"])
                   ELSE IF ~IsLetter(acFields[2][1])
                   THEN Return([out EXCEPT !.Error = ErrInvalidAbbreviatedFP])
                   ELSE IF acFields[2] \notin AircraftPerformance
                   THEN Continue([out EXCEPT !.Error = ErrIllegalACType])
                   ELSE Continue([out EXCEPT !.AircraftType = field])
              ELSE IF Len(acFields[2]) > 1 \/ ~IsAllLetters(acFields[2])
                   THEN Return([out EXCEPT !.Error = ErrInvalidAbbreviatedFP])
                   ELSE IF acFields[1] \notin AircraftPerformance
                   THEN Continue([out EXCEPT !.Error = ErrIllegalACType])
                   ELSE Continue([out EXCEPT !.AircraftType = field])
         [] Len(acFields) = 3 ->
              IF Len(acFields[3]) > 1 \/ ~IsAllLetters(acFields[3])
              THEN Return([out EXCEPT !.Error = ErrInvalidAbbreviatedFP])
              ELSE IF acFields[2] = <<>>
              THEN Return([out EXCEPT !.fault = "index out of range"])
              ELSE IF ~IsLetter(acFields[2][1])
              THEN Return([out EXCEPT !.Error = ErrInvalidAbbreviatedFP])
              ELSE IF acFields[2] \notin AircraftPerformance
              THEN Continue([out EXCEPT !.Error = ErrIllegalACType])
              ELSE Continue([out EXCEPT !.AircraftType = field])
         [] OTHER -> Continue(out)

\* the rules test, nas.go:1043-1059
RulesField(out, field) ==
    IF Len(field) # 2 THEN Continue(out)
    ELSE IF field[1] # "." THEN Return([out EXCEPT !.Error = ErrInvalidAbbreviatedFP])
    ELSE CASE field[2] = "V" -> Continue([out EXCEPT !.Rules = VFR])
           [] field[2] = "P" -> Continue([out EXCEPT !.Rules = VFR])
           [] field[2] = "E" -> Continue([out EXCEPT !.Rules = IFR])
           [] OTHER -> Return([out EXCEPT !.Error = ErrInvalidAbbreviatedFP])

\* the tests that follow the type of flight, nas.go:968-1059
AfterTypeOfFlight(AllowLongScratchpad, out, field) ==
    LET sc1 == IF (HasPrefix(field, STARSTriangleCharacter) /\ Len(field) > 3 /\ Len(field) <= 5)
                  \/ (Len(field) <= 6 /\ AllowLongScratchpad[1])
               THEN ScratchpadBody(out, field, "SC1")
               ELSE [out |-> out, return |-> FALSE, fall |-> TRUE]
        sc2 == IF sc1.fall /\ HasPrefix(field, <<"+">>) /\ Len(field) > 2
                  /\ (Len(field) <= 4 \/ (Len(field) <= 5 /\ AllowLongScratchpad[2]))
               THEN ScratchpadBody(sc1.out, field, "SC2")
               ELSE sc1
    IN IF ~sc2.fall THEN Return(sc2.out)
       ELSE IF Len(field) >= 4 THEN AircraftTypeField(sc2.out, field)
       ELSE IF Len(field) = 3 /\ IsAllNumbers(field)
       THEN Continue([sc2.out EXCEPT !.RequestedALT = field])
       ELSE RulesField(sc2.out, field)

\* the body of the loop over fields[1:], nas.go:933-1061
ParseField(AllowLongScratchpad, out, field) ==
    IF ParseSquawk(field)[1] THEN Continue([out EXCEPT !.BCN = ParseSquawk(field)[2]])
    ELSE IF Len(field) = 2 THEN Continue([out EXCEPT !.ControllingPosition = field])
    ELSE IF Len(field) = 1
    THEN AfterTypeOfFlight(AllowLongScratchpad,
                           CASE field = <<"A">> -> [out EXCEPT !.TypeOfFlight = "arrival"]
                             [] field = <<"P">> -> [out EXCEPT !.TypeOfFlight = "departure"]
                             [] field = <<"E">> -> [out EXCEPT !.TypeOfFlight = "overflight"]
                             [] OTHER -> out,
                           field)
    ELSE IF Len(field) = 2 /\ field[1] \in {"A", "P", "E"}
    THEN Continue([out EXCEPT !.TypeOfFlight = field[1],
                              !.DepartureAirport = SubSeq(field, 2, 2)])
    ELSE AfterTypeOfFlight(AllowLongScratchpad, out, field)

\* the loop over fields[1:]
RECURSIVE ParseFields(_, _, _)
ParseFields(AllowLongScratchpad, out, fields) ==
    IF fields = <<>> THEN out
    ELSE LET r == ParseField(AllowLongScratchpad, out, Head(fields))
         IN IF r.return THEN r.out
            ELSE ParseFields(AllowLongScratchpad, r.out, Tail(fields))

\* func ParseAbbreviatedFPFields(facilityAdaptation, fields) AbbreviatedFPFields;
\* of the adaptation the function reads AllowLongScratchpad
ParseAbbreviatedFPFields(AllowLongScratchpad, fields) ==
    IF fields = <<>> THEN [ZeroFields EXCEPT !.fault = "index out of range"]
    ELSE IF Len(fields[1]) >= 2 /\ Len(fields[1]) <= 7 /\ IsLetter(fields[1][1])
    THEN ParseFields(AllowLongScratchpad, [ZeroFields EXCEPT !.ACID = fields[1]], Tail(fields))
    ELSE [ZeroFields EXCEPT !.Error = ErrIllegalACID]

\* the first tokens the parser is called on
ParseACIDs ==
    {<<"U", "A", "L", "1", "2", "3">>, <<"1", "A", "B", "2", "3">>, <<"A">>,
     <<"U", "A", "L", "1", "2", "3", "4", "5">>, <<"<C2>", "<80>", "A", "B">>}

\* the tokens that follow
ParseTokens ==
    {<<"1", "2", "3", "4">>, <<"P", "3", "5">>, <<"B", "7", "3", "8">>,
     <<".", "V">>, <<".", "P">>, <<".", "E">>, <<".", "X">>, <<"A">>, <<"P">>,
     <<"2", "B">>, <<"1", "9", "0">>, <<"+", "A", "B">>, <<"+", "1", "2", "3">>,
     <<"<C2>", "<80>", "A", "B">>, <<"X", "X", "X">>, <<"C", "1", "7", "2">>,
     <<"B", "7", "3", "8", "/", "L">>, <<"2", "/", "B", "7", "3", "8">>,
     <<"1", "2", "3", "/">>}

\* ["UAL123", "1234", "P35", "B738", ".V"]
ExampleFields ==
    <<<<"U", "A", "L", "1", "2", "3">>, <<"1", "2", "3", "4">>, <<"P", "3", "5">>,
      <<"B", "7", "3", "8">>, <<".", "V">>>>

\* the token lists the parser is called on: the empty list, the example, and
\* a first token followed by up to MaxTokens tokens
ParseInputs ==
    {<<>>, ExampleFields}
    \cup {<<acid>> \o rest : acid \in ParseACIDs,
                             rest \in UNION {[1 .. k -> ParseTokens] : k \in 0 .. MaxTokens}}

\* facilityAdaptation.AllowLongScratchpad
LongScratchpadFlags == [1 .. 2 -> BOOLEAN]

\* ParseAbbreviatedFPFields(facilityAdaptation, fields)
CallParseAbbreviatedFPFields ==
    /\ Running /\ last.op = "fields"
    /\ LET r == ParseAbbreviatedFPFields(last.arg[1], last.arg[2])
       IN /\ Returns("ParseAbbreviatedFPFields", last.arg, r)
          /\ fault' = r.fault

NextParse == CallParseAbbreviatedFPFields

InitParse ==
    /\ Constructed
    /\ adaptName = "relay"
    /\ last \in {Given("fields", <<flags, fields>>) :
                    flags \in LongScratchpadFlags, fields \in ParseInputs}

SpecParse == InitParse /\ [][NextParse]_vars

-----------------------------------------------------------------------------
(* A handoff to a terminal facility and its recall *)

ErrNoMatchingFlight == "no matching flight"

\* func (comp *STARSComputer) GetFlightPlan(identifier) (*STARSFlightPlan, error):
\* every <<plan, err>> the call can return; the loop over ContainedPlans
\* returns the first plan with the callsign that the map iteration comes to
GetFlightPlan(w, t, identifier) ==
    LET comp == w.stars[t]
        squawk == ParseSquawk(identifier)
        plans == {comp.ContainedPlans[q] : q \in DOMAIN comp.ContainedPlans}
        hits == {ref \in plans : w.heap[ref].Callsign = identifier}
    IN IF squawk[1]
       THEN IF squawk[2] \in DOMAIN comp.ContainedPlans
            THEN {<<comp.ContainedPlans[squawk[2]], "">>}
            ELSE {<<NilPlan, ErrNoMatchingFlight>>}
       ELSE IF hits = {} THEN {<<NilPlan, ErrNoMatchingFlight>>}
            ELSE {<<ref, "">> : ref \in hits}

\* the plan of a flight, its handoff, and the accept or the recall that answers
\* the handoff
RecallInputs ==
    {PlanMessage(Plan, Q1, "F1", 0, "110"),
     TrackMessage(InitiateTransfer, Q1, "AAL1", "1A", "2B", "F1")}
    \cup {TrackMessage(AcceptRecallTransfer, Q1, "AAL1", owner, "", "F1")
             : owner \in Controllers}

CallSendRecallMessage(t, receivingFacility, msg) ==
    /\ Running /\ sends < MaxBatch
    /\ sends' = sends + 1
    /\ Becomes(SendTrackInfo(World, t, receivingFacility, msg, now),
               "SendTrackInfo", <<t, receivingFacility, msg>>, <<>>)
    /\ UNCHANGED <<now, ticks, allocs>>

NextRecall ==
    \/ \E msg \in RecallInputs : CallSendRecallMessage("A90", "N90", msg)
    \/ Update

InitRecall == Init /\ adaptName = "relay"

SpecRecall == InitRecall /\ [][NextRecall]_vars

-----------------------------------------------------------------------------
(* Accept messages at a terminal facility that tracks the flight *)

\* accept and recall messages for the tracks N90 holds
AcceptInputs ==
    {TrackMessage(AcceptRecallTransfer, Q1, id, owner, "", "F1")
        : id \in Identifiers, owner \in Controllers}

\* N90 starts to track a flight it hands off
CallAddHandoffTrack(t, callsign, info) ==
    /\ Running /\ allocs < MaxAllocs
    /\ allocs' = allocs + 1
    /\ Becomes(AddTrackInformation(World, t, callsign, info),
               "AddTrackInformation", <<t, callsign, info>>, <<>>)
    /\ UNCHANGED <<now, ticks, sends>>

NextAccept ==
    \/ \E id \in Identifiers, o \in Controllers :
          CallAddHandoffTrack("N90", id, TrackInfo(id, o, "2B", NilPlan))
    \/ \E msg \in AcceptInputs : CallSendRecallMessage("A90", "N90", msg)
    \/ Update

InitAccept == Init /\ adaptName = "relay"

SpecAccept == InitAccept /\ [][NextAccept]_vars

-----------------------------------------------------------------------------
(* The network left to itself *)

\* the messages of one flight that the terminal facilities hand to their
\* centers before the first Update
QuiesceInputs ==
    {PlanMessage(Plan, Q1, "F1", 0, "110"),
     TrackMessage(InitiateTransfer, Q1, "AAL1", "1A", "2B", "F1"),
     TrackMessage(AcceptRecallTransfer, Q1, "AAL1", "2B", "", "F1")}

\* a message handed over while no Update has run yet
CallSendBeforeUpdates(t, msg) ==
    /\ ticks = 0
    /\ CallSendTransferMessage(t, msg)

\* input first, then nothing but the simulation loop's calls of Update
NextQuiesce ==
    \/ \E t \in {"N90", "A90"}, msg \in QuiesceInputs : CallSendBeforeUpdates(t, msg)
    \/ Update

InitQuiesce == Init

\* a call of Update, seen on the counter of the calls: Update is enabled
\* whenever the simulation runs
LoopCallsUpdate == Running /\ ticks < MaxTicks /\ ticks' = ticks + 1

\* the simulation loop goes on calling Update
SpecQuiesce == InitQuiesce /\ [][NextQuiesce]_vars /\ WF_ticks(LoopCallsUpdate)

-----------------------------------------------------------------------------
(* WeatherRadar, panes/radartools.go.  A channel is whether it was made,      *)
(* whether it is closed, and the values it buffers.                          *)

\* the centers the scope asks radar images for
Centres == {"c1", "c2", "c3"}

\* make(chan math.Point2LL, ...), holding nothing
MakeChan == [made |-> TRUE, closed |-> FALSE, buf |-> <<>>]

\* the outcome of a call on the radar, and the radar it leaves
RadarBecomes(r, op, arg, ret, panic) ==
    /\ radar' = r
    /\ fault' = panic
    /\ last' = [NoOp EXCEPT !.op = op, !.arg = arg, !.ret = ret]
    /\ UNCHANGED <<nas, sync>>

\* func (w *WeatherRadar) Activate(center, r, lg): the send at line 1170 waits
\* for room in the channel
WeatherRadarActivate(center) ==
    /\ Running
    /\ IF radar.active
       THEN /\ Len(radar.reqChan.buf) < ReqChanCap
            /\ RadarBecomes([radar EXCEPT !.reqChan.buf = Append(@, center)],
                            "Activate", center, "sent", "")
       ELSE RadarBecomes([active |-> TRUE,
                          reqChan |-> [MakeChan EXCEPT !.buf = <<center>>]],
                         "Activate", center, "started", "")

\* func (w *WeatherRadar) Deactivate()
WeatherRadarDeactivate ==
    /\ Running
    /\ IF radar.active
       THEN RadarBecomes([radar EXCEPT !.reqChan.closed = TRUE, !.active = FALSE],
                         "Deactivate", <<>>, "closed", "")
       ELSE RadarBecomes(radar, "Deactivate", <<>>, "", "")

\* the select of UpdateCenter: a send on a nil channel is never ready, a send
\* on a closed channel is ready and panics, a send on a full channel is not
\* ready; the default case runs when the send is not ready
SelectSend(ch, center) ==
    IF ~ch.made THEN [ch |-> ch, ret |-> "dropped", panic |-> ""]
    ELSE IF ch.closed THEN [ch |-> ch, ret |-> "", panic |-> "send on closed channel"]
    ELSE IF Len(ch.buf) < ReqChanCap
    THEN [ch |-> [ch EXCEPT !.buf = Append(@, center)], ret |-> "sent", panic |-> ""]
    ELSE [ch |-> ch, ret |-> "dropped", panic |-> ""]

\* func (w *WeatherRadar) UpdateCenter(center)
WeatherRadarUpdateCenter(center) ==
    /\ Running
    /\ LET r == SelectSend(radar.reqChan, center)
       IN RadarBecomes([radar EXCEPT !.reqChan = r.ch], "UpdateCenter", center, r.ret, r.panic)

\* fetchWeather receives a request and drains the requests behind it
FetchWeatherReceives ==
    /\ Running
    /\ radar.reqChan.buf # <<>>
    /\ RadarBecomes([radar EXCEPT !.reqChan.buf = <<>>], "fetchWeather", <<>>,
                    radar.reqChan.buf[Len(radar.reqChan.buf)], "")

NextRadar ==
    \/ \E center \in Centres : WeatherRadarActivate(center)
    \/ WeatherRadarDeactivate
    \/ \E center \in Centres : WeatherRadarUpdateCenter(center)
    \/ FetchWeatherReceives

InitRadar == Init /\ adaptName = "relay"

SpecRadar == InitRadar /\ [][NextRadar]_vars

-----------------------------------------------------------------------------
(* LoggingMutex, util/sync.go.  A goroutine stands at the line of Lock or     *)
(* Unlock it executes next; "out" is outside both calls with no mutex held,   *)
(* "held" is outside both calls after its Lock call returned.                 *)

\* a goroutine's step to the next line, on the mutex it works on
At(g, line) == pc[g].at = line
GoesTo(g, line) == pc' = [pc EXCEPT ![g].at = line]

\* an assignment to the map that adds no key
NotRegistered(held, l) == held

\* heldMutexes[l] = nil
Registered(held, l) == held \cup {l}

\* delete(heldMutexes, l)
Deleted(held, l) == held \ {l}

\* an Unlock that leaves the lock as it is
StillLocked(locked) == locked

\* what sync.Mutex.Unlock leaves of the lock
Released(locked) == FALSE

\* the call l.Lock(lg), sync.go:52-54
CallLock(g, l) ==
    /\ pc[g] = Outside
    /\ pc' = [pc EXCEPT ![g] = [at |-> "Lock:56", l |-> l]]
    /\ UNCHANGED <<Mutex, heldMutexesMutex, heldMutexes, notHeld>>

\* l.Mutex.Lock(), sync.go:56: waits while the mutex is locked
LockMutex(g) ==
    /\ At(g, "Lock:56") /\ ~Mutex[pc[g].l]
    /\ Mutex' = [Mutex EXCEPT ![pc[g].l] = TRUE]
    /\ GoesTo(g, "Lock:58")
    /\ UNCHANGED <<heldMutexesMutex, heldMutexes, notHeld>>

\* heldMutexesMutex.Lock(), sync.go:58
LockTakesHeldMutexesMutex(g) ==
    /\ At(g, "Lock:58") /\ ~heldMutexesMutex
    /\ heldMutexesMutex' = TRUE
    /\ GoesTo(g, "Lock:59")
    /\ UNCHANGED <<Mutex, heldMutexes, notHeld>>

\* heldMutexes[l] = nil, sync.go:59
LockRegisters(g) ==
    /\ At(g, "Lock:59")
    /\ heldMutexes' = Registered(heldMutexes, pc[g].l)
    /\ GoesTo(g, "Lock:60")
    /\ UNCHANGED <<Mutex, heldMutexesMutex, notHeld>>

\* heldMutexesMutex.Unlock() and the rest of Lock, which touches only l's
\* own fields and the log, sync.go:60-69
LockReturns(g) ==
    /\ At(g, "Lock:60")
    /\ heldMutexesMutex' = Released(heldMutexesMutex)
    /\ GoesTo(g, "held")
    /\ UNCHANGED <<Mutex, heldMutexes, notHeld>>

\* the call l.Unlock(lg) by the goroutine whose Lock call on l returned
CallUnlock(g) ==
    /\ At(g, "held")
    /\ GoesTo(g, "Unlock:72")
    /\ UNCHANGED <<Mutex, heldMutexesMutex, heldMutexes, notHeld>>

\* heldMutexesMutex.Lock(), sync.go:72
UnlockTakesHeldMutexesMutex(g) ==
    /\ At(g, "Unlock:72") /\ ~heldMutexesMutex
    /\ heldMutexesMutex' = TRUE
    /\ GoesTo(g, "Unlock:79")
    /\ UNCHANGED <<Mutex, heldMutexes, notHeld>>

\* the lookup with its "mutex not held" error and the delete, sync.go:79-82
UnlockDeletes(g) ==
    /\ At(g, "Unlock:79")
    /\ notHeld' = IF pc[g].l \in heldMutexes THEN notHeld ELSE notHeld \cup {pc[g].l}
    /\ heldMutexes' = Deleted(heldMutexes, pc[g].l)
    /\ GoesTo(g, "Unlock:91")
    /\ UNCHANGED <<Mutex, heldMutexesMutex>>

\* l.Mutex.Unlock(), sync.go:91
UnlockMutex(g) ==
    /\ At(g, "Unlock:91")
    /\ Mutex' = [Mutex EXCEPT ![pc[g].l] = Released(@)]
    /\ GoesTo(g, "Unlock:94")
    /\ UNCHANGED <<heldMutexesMutex, heldMutexes, notHeld>>

\* the deferred heldMutexesMutex.Unlock() as Unlock returns, sync.go:77, 94
UnlockReturns(g) ==
    /\ At(g, "Unlock:94")
    /\ heldMutexesMutex' = Released(heldMutexesMutex)
    /\ pc' = [pc EXCEPT ![g] = Outside]
    /\ UNCHANGED <<Mutex, heldMutexes, notHeld>>

\* the steps of goroutine g that wait for nothing
Proceeds(g) ==
    \/ LockRegisters(g) \/ LockReturns(g) \/ CallUnlock(g)
    \/ UnlockDeletes(g) \/ UnlockMutex(g) \/ UnlockReturns(g)

\* the steps of goroutine g that wait for a sync.Mutex
Acquires(g) ==
    \/ LockMutex(g) \/ LockTakesHeldMutexesMutex(g) \/ UnlockTakesHeldMutexesMutex(g)

NextSync ==
    /\ \E g \in Goroutines :
          \/ \E l \in LoggingMutexes : CallLock(g, l)
          \/ Acquires(g)
          \/ Proceeds(g)
    /\ UNCHANGED <<nas, radar, fault, last>>

InitSync == Init /\ adaptName = "relay"

SpecSync == InitSync /\ [][NextSync]_vars

\* the scheduler runs every goroutine that can run, and a waiter on a
\* sync.Mutex that is unlocked again and again gets it
Fairness ==
    \A g \in Goroutines :
        /\ WF_sync(Proceeds(g))
        /\ SF_sync(Acquires(g))

SpecSyncFair == SpecSync /\ Fairness

-----------------------------------------------------------------------------
(* Properties *)

\* the steps of the last operation in which a facility of facs handled a message
\* of the given type
Handled(facs, type) ==
    {i \in 1 .. Len(last.steps) :
        last.steps[i].fac \in facs /\ last.steps[i].msg.MessageType = type}

NoDuplicates(s) == \A i, j \in 1 .. Len(s) : i # j => s[i] # s[j]

\* the configured set of a pool, as the ranges are stated
Configured(p, code) ==
    IF p[1] = "NAS"
    THEN code \in \o1001 .. \o7777 /\ code \notin SPCs /\ code # \o1200
    ELSE code \in StarsBeaconBank * \o100 + 1 .. StarsBeaconBank * \o100 + \o77

C2_QueueEmptyAfterSort ==
    \A i \in 1 .. Len(last.phases) :
        last.phases[i].pass \in {"SortMessages", "SortReceivedMessages"}
            => last.phases[i].queue = <<>>

\* C3: a terminal facility that handles an InitiateTransfer message posts
\* exactly one event for it; if it held a plan for the message's squawk the
\* event is TransferAccepted, the squawk is gone from ContainedPlans and
\* TrackInformation of the message's identifier holds that plan with the
\* message's owner and handoff controller; if it held neither a plan for the
\* squawk nor TrackInformation for the identifier the event is
\* TransferRejected.
C3_InitiateTransferAtSTARS ==
    \A i \in Handled(Tracons, InitiateTransfer) :
        LET s == last.steps[i]
            q == s.msg.BCN
            id == s.msg.Identifier
        IN /\ Len(s.posted) = 1
           /\ s.posted[1].Callsign = id
           /\ q \in DOMAIN s.pre.ContainedPlans =>
                 /\ s.posted[1].Type = TransferAcceptedEvent
                 /\ q \notin DOMAIN s.post.ContainedPlans
                 /\ id \in DOMAIN s.post.TrackInformation
                 /\ s.post.TrackInformation[id].FlightPlan = s.pre.ContainedPlans[q]
                 /\ s.post.TrackInformation[id].TrackOwner = s.msg.TrackOwner
                 /\ s.post.TrackInformation[id].HandoffController = s.msg.HandoffController
           /\ (q \notin DOMAIN s.pre.ContainedPlans /\ id \notin DOMAIN s.pre.TrackInformation) =>
                 s.posted[1].Type = TransferRejectedEvent

\* a terminal facility handled an InitiateTransfer for a plan it held
C3_TransferOfHeldPlan ==
    \E i \in Handled(Tracons, InitiateTransfer) :
        last.steps[i].msg.BCN \in DOMAIN last.steps[i].pre.ContainedPlans

\* C4: a terminal facility that handles an AcceptRecallTransfer message leaves
\* its state as it was if it has no TrackInformation for the identifier; if
\* the message's owner differs from the current owner the owner becomes the
\* message's owner and the handoff controller becomes empty; if the owners are
\* equal the TrackInformation of the identifier is deleted.
C4_AcceptRecallAtSTARS ==
    \A i \in Handled(Tracons, AcceptRecallTransfer) :
        LET s == last.steps[i]
            id == s.msg.Identifier
            had == id \in DOMAIN s.pre.TrackInformation
        IN /\ ~had => s.post = s.pre /\ s.posted = <<>>
           /\ (had /\ s.msg.TrackOwner # s.pre.TrackInformation[id].TrackOwner) =>
                 s.post = [s.pre EXCEPT
                              !.TrackInformation =
                                  MapSet(@, id, [s.pre.TrackInformation[id] EXCEPT
                                                    !.TrackOwner = s.msg.TrackOwner,
                                                    !.HandoffController = ""])]
           /\ (had /\ s.msg.TrackOwner = s.pre.TrackInformation[id].TrackOwner) =>
                 s.post = [s.pre EXCEPT !.TrackInformation = MapDel(@, id)]

\* a terminal facility handled a recall of a track it held
C4_RecallOfHeldTrack ==
    \E i \in Handled(Tracons, AcceptRecallTransfer) :
        LET s == last.steps[i]
        IN /\ s.msg.Identifier \in DOMAIN s.pre.TrackInformation
           /\ s.msg.TrackOwner = s.pre.TrackInformation[s.msg.Identifier].TrackOwner
           /\ s.msg.Identifier \notin DOMAIN s.post.TrackInformation

\* C6: handling a Plan message whose squawk is zero leaves the plan table as it
\* was: a center stops with the fatal condition and FlightPlans untouched, a
\* terminal facility does nothing at all.
C6_ZeroSquawkPlanNeverStored ==
    \A i \in Handled(Centers \cup Tracons, Plan) :
        LET s == last.steps[i]
        IN s.msg.BCN = 0 =>
              /\ s.fac \in Centers =>
                    s.fault = "zero squawk" /\ s.post.FlightPlans = s.pre.FlightPlans
              /\ s.fac \in Tracons =>
                    s.fault = "" /\ s.post = s.pre /\ s.posted = <<>>

\* a center and a terminal facility each handled a Plan message with a zero
\* squawk
C6_ZeroSquawkPlanHandled ==
    /\ \E i \in Handled(Centers, Plan) : last.steps[i].msg.BCN = 0
    /\ \E i \in Handled(Tracons, Plan) : last.steps[i].msg.BCN = 0

\* the plan a reference points to: <<>> for nil
Deref(w, ref) == IF ref = NilPlan THEN <<>> ELSE <<w.heap[ref]>>

\* the Plan messages the timed transmission appended to an inbox in the last
\* operation
TimedSends == {i \in 1 .. Len(last.delivered) : last.delivered[i].during = "SendFlightPlans"}

\* a plan's coordination time is at most the lead interval away
Due(fp, simTime) == simTime + TransmitFPMessageTime >= fp.CoordinationTime.Time

\* the centers whose SendFlightPlans returned in the last operation
SentFlightPlans == {last.phases[k].fac : k \in {k \in 1 .. Len(last.phases) :
                                                last.phases[k].pass = "SendFlightPlans"}}

\* the timed transmission does what is said of it: nothing before the lead
\* interval, a plan at most once in an Update, every send recorded under the
\* destination of the plan's fix, no destination recorded twice, and every due
\* plan with a resolving fix recorded as sent to the fix's destination
TimedTransmission ==
    /\ \A i \in TimedSends :
          /\ last.delivered[i].msg.MessageType = Plan
          /\ last.delivered[i].from \in Centers
          /\ Due(last.delivered[i].msg, last.arg[2])
    /\ \A i, j \in TimedSends :
          i # j => last.delivered[i].plan # last.delivered[j].plan
    /\ \A i \in TimedSends :
          LET fp == heap[last.delivered[i].plan]
              af == AdaptationFixForAltitude(CoordinationFixes(last.delivered[i].from),
                                             fp.CoordinationFix, fp.Altitude)
          IN af[1] /\ \E n \in 1 .. Len(fp.ContainedFacilities) :
                        fp.ContainedFacilities[n] = af[2].ToFacility
    /\ \A ref \in 1 .. Len(heap) : NoDuplicates(heap[ref].ContainedFacilities)
    /\ \A c \in SentFlightPlans : \A sq \in DOMAIN eram[c].FlightPlans :
          LET fp == heap[eram[c].FlightPlans[sq]]
              af == AdaptationFixForAltitude(CoordinationFixes(c), fp.CoordinationFix,
                                             fp.Altitude)
          IN (Due(fp, last.arg[2]) /\ af[1]) =>
                \E n \in 1 .. Len(fp.ContainedFacilities) :
                    fp.ContainedFacilities[n] = af[2].ToFacility

MessageCovered(m) == <<m.BCN, m.Route, m.Altitude, m.CoordinationFix, m.CoordinationTime>>
PlanCovered(fp) ==
    <<fp.AssignedSquawk, fp.Route, fp.Altitude, fp.CoordinationFix, fp.CoordinationTime>>

\* C7: m.FlightPlan().Message() has the squawk, route, altitude string,
\* coordination fix and coordination time of the message m, and
\* p.Message().FlightPlan() has those of the plan p.
C7_ConversionsAreInverses ==
    /\ last.op = "FlightPlan.Message" => MessageCovered(last.ret) = MessageCovered(last.arg)
    /\ last.op = "Message.FlightPlan" => PlanCovered(last.ret) = PlanCovered(last.arg)

\* a message with a squawk, a VFR altitude and a coordination time went
\* through both conversions
C7_RoundTripOfFilledMessage ==
    /\ last.op = "FlightPlan.Message"
    /\ last.arg.BCN = Q1 /\ last.arg.Altitude = "VFR/55" /\ last.arg.Route = "F1 F2"
    /\ last.arg.CoordinationFix = "F1" /\ last.arg.CoordinationTime.Time = 90

\* C8: FacilityComputers returns the center alone for a center's identifier,
\* the owning center and the terminal facility for a terminal facility's
\* identifier, and the unknown-facility error with no computer for any other
\* identifier; it never panics.
C8_FacilityComputers ==
    last.op = "FacilityComputers" =>
        /\ fault = ""
        /\ last.arg \in Centers => last.ret = <<last.arg, "", "">>
        /\ last.arg \in Tracons => last.ret = <<TRACONs[last.arg], last.arg, "">>
        /\ last.arg \notin Centers \cup Tracons => last.ret = <<"", "", ErrUnknownFacility>>

\* a center's identifier was resolved
C8_CenterResolved ==
    last.op = "FacilityComputers" /\ last.arg = "ZBW" /\ last.ret[1] = "ZBW"

\* the passes of the last operation that ran before pass k
Before(k, pass, fac) ==
    {j \in 1 .. k - 1 : last.phases[j].pass = pass /\ last.phases[j].fac = fac}

\* C9: in an Update the SendFlightPlans of a center runs after the SortMessages
\* of that center, and the SortReceivedMessages of a terminal facility after
\* the SendFlightPlans of its center, each once; and when the Update returns,
\* every message a center appended to the inbox of one of its own terminal
\* facilities has been handled by that facility.
C9_UpdateOrder ==
    last.op = "Update" =>
        /\ \A k \in 1 .. Len(last.phases) :
              LET ph == last.phases[k]
              IN /\ Before(k, ph.pass, ph.fac) = {}
                 /\ ph.pass = "SendFlightPlans" => Before(k, "SortMessages", ph.fac) # {}
                 /\ ph.pass = "SortReceivedMessages" =>
                       Before(k, "SendFlightPlans", TRACONs[ph.fac]) # {}
        /\ fault = "" =>
              /\ Len(last.phases) = 2 * Cardinality(Centers) + Cardinality(Tracons)
              /\ \A i \in 1 .. Len(last.delivered) :
                    LET d == last.delivered[i]
                    IN (d.from \in Centers /\ d.to \in STARSComputers(d.from)) =>
                          \E k \in 1 .. Len(last.steps) :
                              last.steps[k].fac = d.to /\ last.steps[k].msg = d.msg

\* an Update returned in which a center appended a message to the inbox of one
\* of its terminal facilities
C9_CenterFedItsTerminal ==
    /\ last.op = "Update" /\ fault = ""
    /\ \E i \in 1 .. Len(last.delivered) :
          /\ last.delivered[i].from \in Centers
          /\ last.delivered[i].to \in STARSComputers(last.delivered[i].from)

\* the plan tables, track tables, inboxes and posted events of a world, with
\* the plans themselves in place of the references to them
Outcome(w) ==
    <<[c \in Centers |->
          [FlightPlans |-> [sq \in DOMAIN w.eram[c].FlightPlans |->
                               Deref(w, w.eram[c].FlightPlans[sq])],
           TrackInformation |-> [id \in DOMAIN w.eram[c].TrackInformation |->
                                    [w.eram[c].TrackInformation[id] EXCEPT
                                        !.FlightPlan = Deref(w, @)]],
           ReceivedMessages |-> w.eram[c].ReceivedMessages]],
      [t \in Tracons |->
          [ContainedPlans |-> [sq \in DOMAIN w.stars[t].ContainedPlans |->
                                  Deref(w, w.stars[t].ContainedPlans[sq])],
           TrackInformation |-> [id \in DOMAIN w.stars[t].TrackInformation |->
                                    [w.stars[t].TrackInformation[id] EXCEPT
                                        !.FlightPlan = Deref(w, @)]],
           ReceivedMessages |-> w.stars[t].ReceivedMessages]],
      w.events>>

\* the outcomes of an Update that visits center c first
OutcomesVisitingFirst(c, tracon, simTime) ==
    {Outcome(w2) : w2 \in UNION {UpdateLoop(w1, tracon, simTime, Centers \ {c})
                                  : w1 \in UpdateCenter(World, c, tracon, simTime)}}

\* C10: from one state and for one simTime, an Update in which no visiting
\* order panics gives the same plan tables, track tables, inboxes and posted
\* events whichever center it visits first.
C10_UpdateDeterministic ==
    Running =>
        \A tracon \in UpdateTracons, dt \in TickMinutes :
            (\A w \in UpdateWorlds(World, tracon, now + dt) : w.fault = "") =>
                \A c1, c2 \in Centers :
                    OutcomesVisitingFirst(c1, tracon, now + dt)
                        = OutcomesVisitingFirst(c2, tracon, now + dt)

\* the terminal facilities whose ContainedPlans hold a plan under squawk q
Holders(q) == {t \in Tracons : q \in DOMAIN stars[t].ContainedPlans}

\* C11: at any time at most one terminal facility holds a plan under a given
\* squawk in its ContainedPlans, and a terminal facility that accepts the
\* transfer of a track no longer holds the plan of the message's squawk in its
\* ContainedPlans.
C11_PlanInAtMostOneContainedPlans ==
    /\ \A q \in BCNs \ {0} : Cardinality(Holders(q)) <= 1
    /\ \A i \in Handled(Tracons, InitiateTransfer) :
          LET s == last.steps[i]
          IN (Len(s.posted) = 1 /\ s.posted[1].Type = TransferAcceptedEvent)
                => s.msg.BCN \notin DOMAIN s.post.ContainedPlans

\* C12: when a center has handled an InitiateTransfer message, the squawk of
\* the message is not in the center's AvailableSquawks, so that CreateSquawk
\* cannot return it.
C12_InitiateTransferRetiresSquawk ==
    \A i \in Handled(Centers, InitiateTransfer) :
        last.steps[i].msg.BCN \notin last.steps[i].post.AvailableSquawks

\* the codes CreateSquawk returned from pool p that were not put back since
Outstanding(p) == {issued[p].codes[i] : i \in 1 .. Len(issued[p].codes)}

\* C14: no squawk code is outstanding at the same time from a center's NAS
\* pool and from the beacon-bank pool of that center's terminal facilities.
C14_NoCodeOutstandingFromTwoPools ==
    \A c \in Centers : Outstanding(<<"NAS", c>>) \cap Outstanding(<<"bank", c>>) = {}

\* C15: a CreateSquawk call at a terminal facility leaves the AvailableSquawks
\* of every other terminal facility and of every center as they were.
C15_CreateSquawkLeavesOtherPools ==
    [][\A t \in Tracons :
          STARSCreateSquawk(t) =>
              /\ \A t2 \in Tracons \ {t} :
                    STARSAvailableSquawks(t2)' = STARSAvailableSquawks(t2)
              /\ \A c \in Centers :
                    eram'[c].AvailableSquawks = eram[c].AvailableSquawks]_vars

\* a terminal facility handled a recall: an AcceptRecallTransfer for a track it
\* held, from the track's owner
Recalls ==
    {i \in Handled(Tracons, AcceptRecallTransfer) :
        LET s == last.steps[i]
        IN /\ s.msg.Identifier \in DOMAIN s.pre.TrackInformation
           /\ s.msg.TrackOwner = s.pre.TrackInformation[s.msg.Identifier].TrackOwner}

\* no squawk of a Cancellation or of a recall that a terminal facility handled
\* in the last operation is outstanding from the facility's pool
CancelledAndRecalledCodesBack ==
    \A i \in Handled(Tracons, Cancellation) \cup Recalls :
        last.steps[i].msg.BCN \notin Outstanding(<<"bank", TRACONs[last.steps[i].fac]>>)

\* C13: a squawk code that CreateSquawk took from a pool is back in that pool
\* when a terminal facility has handled the Cancellation of its plan or the
\* recall of its track, and when CompletelyDeleteAircraft has deleted a track
\* of the aircraft that carries it.
C13_SquawkBackInPoolAfterRelease ==
    [][/\ CancelledAndRecalledCodesBack'
       /\ \A ac \in Aircraft :
             (CallCompletelyDeleteAircraft(ac) /\ <<eram, stars>>' # <<eram, stars>>)
                 => \A p \in Pools : ac.Squawk \notin Outstanding(p)']_vars

\* the inboxes of all facilities
Inboxes(e, st) ==
    <<[c \in Centers |-> e[c].ReceivedMessages], [t \in Tracons |-> st[t].ReceivedMessages]>>

\* a center that handled a RequestFlightPlan message in the last operation
\* answered it with one Plan message of the requested squawk to the facility
\* named by the source identifier if it held a plan for the squawk, and sent
\* nothing if it held none
RequestsAnswered ==
    \A i \in Handled(Centers, RequestFlightPlan) :
        LET s == last.steps[i]
        IN IF s.msg.BCN \in DOMAIN s.pre.FlightPlans
           THEN /\ Len(s.out) = 1
                /\ s.out[1].from = s.fac
                /\ s.out[1].to = SourceFacility(s.msg.SourceID)[2]
                /\ s.out[1].to \in Tracons
                /\ s.out[1].msg.MessageType = Plan
                /\ s.out[1].msg.BCN = s.msg.BCN
           ELSE s.out = <<>>

\* C16: RequestFlightPlan(q) at a terminal facility appends one
\* RequestFlightPlan message with squawk q and the facility's source identifier
\* to the inbox of the facility's center and changes no other inbox; a center
\* that handles such a message and holds a plan for q appends exactly one Plan
\* message with squawk q to the inbox of the requesting terminal facility; a
\* center that holds no plan for q sends nothing.
C16_RequestFlightPlanRouting ==
    [][/\ \A t \in Tracons, q \in BCNs :
             CallRequestFlightPlan(t, q) =>
                 Inboxes(eram, stars)' =
                     [Inboxes(eram, stars) EXCEPT
                         ![1][TRACONs[t]] =
                             Append(@, [ZeroMessage EXCEPT
                                           !.MessageType = RequestFlightPlan, !.BCN = q,
                                           !.SourceID = <<t, Format1504(now)>>])]
       /\ RequestsAnswered']_vars

\* a center answered the request for a plan it held
C16_RequestForHeldPlanAnswered ==
    \E i \in Handled(Centers, RequestFlightPlan) :
        LET s == last.steps[i]
        IN /\ s.msg.BCN \in DOMAIN s.pre.FlightPlans
           /\ Len(s.out) = 1
           /\ s.out[1].to = "N90"
           /\ s.out[1].msg.BCN = Q1

\* fp is the plan FlightPlan() makes of the message, but for the coordination
\* fix the center resolved from the route and the facilities it was sent to
\* since
PlanOfMessage(fp, msg) ==
    /\ [fp EXCEPT !.CoordinationFix = "", !.ContainedFacilities = <<>>]
           = [FlightPlan(msg) EXCEPT !.CoordinationFix = ""]
    /\ msg.CoordinationFix # "" => fp.CoordinationFix = msg.CoordinationFix

\* C17: a center that handles a Plan message with a squawk q that is not zero
\* has the plan of the message under FlightPlans[q]; it forwards the message,
\* as it is, exactly when the adaptation resolves the plan's coordination fix
\* at its altitude to a facility F other than the center, and then to the
\* inbox of F alone.
C17_PlanStoredAndForwardedToOwner ==
    \A i \in Handled(Centers, Plan) :
        LET s == last.steps[i]
            q == s.msg.BCN
        IN q # 0 =>
              /\ q \in DOMAIN s.post.FlightPlans
              /\ PlanOfMessage(heap[s.post.FlightPlans[q]], s.msg)
              /\ LET fp == heap[s.post.FlightPlans[q]]
                     af == AdaptationFixForAltitude(CoordinationFixes(s.fac),
                                                    fp.CoordinationFix, fp.Altitude)
                 IN IF af[1] /\ af[2].ToFacility # s.fac
                    THEN /\ Len(s.out) = 1
                         /\ s.out[1].to = af[2].ToFacility
                         /\ s.out[1].msg = s.msg
                    ELSE s.out = <<>>

\* the plan under squawk q in a center's plan table, nil if there is none
PlanUnder(comp, q) == IF q \in DOMAIN comp.FlightPlans THEN comp.FlightPlans[q] ELSE NilPlan

\* the plan whose altitude a center routes a transfer by: the plan of the track
\* it has for the identifier, or of the message's squawk if it has no track
TransferPlan(comp, msg) ==
    IF msg.Identifier \in DOMAIN comp.TrackInformation
    THEN comp.TrackInformation[msg.Identifier].FlightPlan
    ELSE PlanUnder(comp, msg.BCN)

\* the steps of the last operation in which a center handled a message of the
\* given type whose coordination fix its adaptation resolves at the altitude of
\* the transfer's plan
Routed(type) ==
    {i \in Handled(Centers, type) :
        LET s == last.steps[i]
        IN /\ TransferPlan(s.pre, s.msg) # NilPlan
           /\ AdaptationFixForAltitude(CoordinationFixes(s.fac), s.msg.CoordinationFix,
                                       heap[TransferPlan(s.pre, s.msg)].Altitude)[1]}

\* the adaptation entry a routed step resolves
RoutedFix(s) ==
    AdaptationFixForAltitude(CoordinationFixes(s.fac), s.msg.CoordinationFix,
                             heap[TransferPlan(s.pre, s.msg)].Altitude)[2]

AcceptRecallsOfTracks ==
    {i \in Handled(Centers, AcceptRecallTransfer) :
        last.steps[i].msg.Identifier \in DOMAIN last.steps[i].pre.TrackInformation}

\* what is said of an AcceptRecallTransfer at a center, for step i: the owner
\* is overwritten, the squawk is put into the pool exactly on a recall, and the
\* message goes to the inbox of the fix's origin exactly when the origin is not
\* the center
AcceptRecallDone(i) ==
    LET s == last.steps[i]
        id == s.msg.Identifier
        recall == s.msg.TrackOwner = s.pre.TrackInformation[id].TrackOwner
    IN /\ id \in DOMAIN s.post.TrackInformation
       /\ s.post.TrackInformation[id].TrackOwner = s.msg.TrackOwner
       /\ IF recall THEN s.post.AvailableSquawks = s.pre.AvailableSquawks \cup {s.msg.BCN}
                    ELSE s.post.AvailableSquawks = s.pre.AvailableSquawks
       /\ IF i \in Routed(AcceptRecallTransfer) /\ RoutedFix(s).FromFacility # s.fac
          THEN /\ Len(s.out) = 1
               /\ s.out[1].to = RoutedFix(s).FromFacility
               /\ s.out[1].to \in ERAMInboxes(s.fac)
               /\ s.out[1].msg = s.msg
          ELSE s.out = <<>>

\* C19 as stated: a center that handles an AcceptRecallTransfer for an
\* identifier with TrackInformation always overwrites the track owner with the
\* message's owner, puts the message's squawk into the pool exactly when the
\* message's owner is the owner held before, and forwards the message to the
\* fix's origin center exactly when the origin is not the center itself.
C19_AcceptRecallAtCenter ==
    \A i \in AcceptRecallsOfTracks : AcceptRecallDone(i)

\* C19, for a coordination fix the center's adaptation has: the owner is
\* overwritten, the squawk is put into the pool exactly on a recall, and the
\* message is forwarded to the origin of the fix exactly when the fix resolves
\* at the altitude of the track's plan to an origin other than the center;
\* for a coordination fix the adaptation does not have, the message changes
\* nothing and nothing is forwarded.
C19_AcceptRecallAtCenterForAdaptedFix ==
    \A i \in AcceptRecallsOfTracks :
        LET s == last.steps[i]
        IN IF s.msg.CoordinationFix \in DOMAIN CoordinationFixes(s.fac)
           THEN AcceptRecallDone(i)
           ELSE s.post = s.pre /\ s.out = <<>> /\ s.fault = ""

\* a center handled the recall of a track it held and forwarded it to the
\* origin of the fix
C19_RecallForwardedToOrigin ==
    \E i \in AcceptRecallsOfTracks :
        LET s == last.steps[i]
        IN /\ s.msg.TrackOwner = s.pre.TrackInformation[s.msg.Identifier].TrackOwner
           /\ s.msg.BCN \notin s.pre.AvailableSquawks
           /\ s.msg.BCN \in s.post.AvailableSquawks
           /\ Len(s.out) = 1
           /\ s.out[1].to = "ZBW"

\* the steps of the last operation in which a center handled a Plan message
\* without a coordination fix for which none is found from route and altitude
PlansWithoutFix ==
    {i \in Handled(Centers, Plan) :
        LET s == last.steps[i]
        IN /\ s.msg.BCN # 0 /\ s.msg.CoordinationFix = ""
           /\ FixForRouteAndAltitude(CoordinationFixes(s.fac), s.msg.Route, s.msg.Altitude)
                 = {<<"", FALSE>>}}

\* ... a Plan message whose coordination fix the adaptation does not resolve at
\* the plan's altitude
PlansWithUnresolvedFix ==
    {i \in Handled(Centers, Plan) :
        LET s == last.steps[i]
        IN /\ s.msg.BCN # 0 /\ s.msg.CoordinationFix # ""
           /\ ~AdaptationFixForAltitude(CoordinationFixes(s.fac), s.msg.CoordinationFix,
                                        s.msg.Altitude)[1]}

\* ... an InitiateTransfer with a plan at whose altitude the lookup of some fix
\* of the adaptation fails
TransfersWithAFailedLookup ==
    {i \in Handled(Centers, InitiateTransfer) :
        LET s == last.steps[i]
        IN /\ TransferPlan(s.pre, s.msg) # NilPlan
           /\ \E name \in DOMAIN CoordinationFixes(s.fac) :
                 ~Fix(CoordinationFixes(s.fac)[name], heap[TransferPlan(s.pre, s.msg)].Altitude)[1]}

\* ... an InitiateTransfer with a plan at whose altitude the lookup of the
\* message's own coordination fix fails
TransfersWithOwnLookupFailed ==
    {i \in Handled(Centers, InitiateTransfer) :
        LET s == last.steps[i]
        IN /\ TransferPlan(s.pre, s.msg) # NilPlan
           /\ s.msg.CoordinationFix \in DOMAIN CoordinationFixes(s.fac)
           /\ i \notin Routed(InitiateTransfer)}

\* ... an AcceptRecallTransfer whose coordination fix the adaptation does not
\* have
AcceptRecallsWithoutFix ==
    {i \in Handled(Centers, AcceptRecallTransfer) :
        last.steps[i].msg.CoordinationFix \notin DOMAIN CoordinationFixes(last.steps[i].fac)}

\* the message after the one of step i in the batch, if there is one, was
\* handled in the same pass
NextHandled(i) ==
    last.steps[i].left > 0 =>
        /\ i < Len(last.steps)
        /\ last.steps[i + 1].fac = last.steps[i].fac
        /\ last.steps[i + 1].left = last.steps[i].left - 1

\* step i wrote a warning and did not end the pass, and the pass went on
WarnedAndWentOn(i) ==
    /\ last.steps[i].warned # <<>>
    /\ last.steps[i].fault = ""
    /\ NextHandled(i)

\* step i did that and appended no message to any inbox
OnlyWarned(i) == WarnedAndWentOn(i) /\ last.steps[i].out = <<>>

OtherPlans(plans, q) == [x \in DOMAIN plans \ {q} |-> plans[x]]

\* C21: at a terminal facility a Plan message with a nonzero squawk q and an
\* Amendment message with any squawk q leave ContainedPlans[q] holding the
\* plan of the message, and a Cancellation message with squawk q leaves no
\* entry under q; each of the three leaves every other entry of ContainedPlans
\* and the whole TrackInformation table as they were and posts no event.
C21_PlanTableRulesAtSTARS ==
    \A i \in Handled(Tracons, Plan) \cup Handled(Tracons, Amendment)
                \cup Handled(Tracons, Cancellation) :
        LET s == last.steps[i]
            q == s.msg.BCN
            type == s.msg.MessageType
        IN /\ (type = Amendment \/ (type = Plan /\ q # 0)) =>
                 /\ q \in DOMAIN s.post.ContainedPlans
                 /\ s.post.ContainedPlans[q] # NilPlan
                 /\ heap[s.post.ContainedPlans[q]] = FlightPlan(s.msg)
           /\ type = Cancellation => q \notin DOMAIN s.post.ContainedPlans
           /\ OtherPlans(s.post.ContainedPlans, q) = OtherPlans(s.pre.ContainedPlans, q)
           /\ s.post.TrackInformation = s.pre.TrackInformation
           /\ s.posted = <<>>

\* in one pass a terminal facility that held a plan stored an amended plan
\* under another squawk, the zero squawk
C21_AmendmentStoredBesideAPlan ==
    \E i \in Handled(Tracons, Amendment) :
        LET s == last.steps[i]
        IN /\ s.msg.BCN = 0
           /\ DOMAIN s.pre.ContainedPlans = {Q1}
           /\ DOMAIN s.post.ContainedPlans = {0, Q1}

\* C22: SendTrackInfo from terminal facility S to another existing terminal
\* facility R, under the same center or another one, appends the message to
\* the inbox of R and changes no other inbox; for every other receiver name (S
\* itself, a center, an unknown name) it appends the message to the inbox of
\* the center of S and changes no other inbox; and the peer-inbox table of
\* each center holds every other center and not the center itself.
C22_FlatAddressing ==
    [][/\ \A c \in Centers : ERAMInboxes(c) = Centers \ {c}
       /\ \A S \in Tracons, R \in FacilityNames, msg \in AddressingInputs :
             CallSendTrackInfo(S, R, msg) =>
                 LET m == [msg EXCEPT !.SourceID = <<S, Format1504(now)>>]
                 IN Inboxes(eram, stars)' =
                        IF R \in Tracons /\ R # S
                        THEN [Inboxes(eram, stars) EXCEPT ![2][R] = Append(@, m)]
                        ELSE [Inboxes(eram, stars) EXCEPT ![1][TRACONs[S]] = Append(@, m)]]_vars

\* a terminal facility of one center sent to a terminal facility of the other
\* center, and the message is in that facility's inbox and in no center's
C22_SentAcrossCenters ==
    /\ last.op = "SendTrackInfo"
    /\ last.arg[1] = "N90" /\ last.arg[2] = "A90"
    /\ Len(stars["A90"].ReceivedMessages) = 1
    /\ \A c \in Centers : eram[c].ReceivedMessages = <<>>

\* the number of times SendFlightPlan recorded a destination on plan ref in
\* the step from the unprimed to the primed state is the number of Plan
\* messages the timed transmission appended to an inbox for that plan
OneInboxPerSend ==
    \A ref \in 1 .. Len(heap') :
        Len(heap'[ref].ContainedFacilities)
            - (IF ref <= Len(heap) THEN Len(heap[ref].ContainedFacilities) ELSE 0)
        = Cardinality({i \in 1 .. Len(last'.delivered) :
                          /\ last'.delivered[i].during = "SendFlightPlans"
                          /\ last'.delivered[i].plan = ref})

\* every Plan message the timed transmission of the last Update appended went
\* to the inbox of the named terminal facility if the sending center has that
\* facility, and to the inbox of the center that owns the facility if not
SentToNamedFacilityOrItsCenter ==
    last.op = "Update" =>
        \A i \in TimedSends :
            LET d == last.delivered[i]
                tracon == last.arg[1]
            IN /\ d.msg.MessageType = Plan
               /\ d.msg = [Message(heap[d.plan]) EXCEPT
                              !.MessageType = Plan,
                              !.SourceID = <<d.from, Format1504(last.arg[2])>>]
               /\ d.to = IF TRACONs[tracon] = d.from THEN tracon ELSE TRACONs[tracon]

\* C23: SendFlightPlan appends its Plan message to the inbox of the named
\* terminal facility when that facility is one of the sending center's own;
\* exactly when the sending center does not know the facility it appends the
\* message to the inbox of the center that owns the facility; either way each
\* call appends the message to exactly one inbox.
C23_TimedTransmissionDelivery ==
    [][OneInboxPerSend /\ SentToNamedFacilityOrItsCenter']_vars

\* the timed transmission of a center that does not have the named terminal
\* facility appended a Plan message to the inbox of the facility's center
C23_FellBackToOwningCenter ==
    /\ last.op = "Update"
    /\ \E i \in TimedSends :
          /\ last.delivered[i].from = "ZBW"
          /\ last.arg[1] = "N90"
          /\ last.delivered[i].to = "ZNY"

\* the last operation was a call of the parser
Parsed == last.op = "ParseAbbreviatedFPFields"

\* C24: on the tokens ["UAL123", "1234", "P35", "B738", ".V"], with B738 in
\* the performance database, ParseAbbreviatedFPFields returns the identifier
\* UAL123, the squawk 1234, the flight type "departure" with airport "35", the
\* aircraft type B738, the rules VFR and no error.
C24_ExampleParsesFully ==
    (Parsed /\ last.arg[2] = ExampleFields) =>
        /\ fault = ""
        /\ last.ret.ACID = <<"U", "A", "L", "1", "2", "3">>
        /\ last.ret.BCN = \o1234
        /\ last.ret.TypeOfFlight = "departure"
        /\ last.ret.DepartureAirport = <<"3", "5">>
        /\ last.ret.AircraftType = <<"B", "7", "3", "8">>
        /\ last.ret.Rules = VFR
        /\ last.ret.Error = ""

\* the number of characters of a token: "<80>" is the second byte of a
\* character
Characters(token) == Cardinality({i \in 1 .. Len(token) : token[i] # "<80>"})

\* the first token is a string of 2 to 7 characters that begins with a letter
LegalACID(fields) ==
    /\ Characters(fields[1]) >= 2 /\ Characters(fields[1]) <= 7
    /\ fields[1][1] \in Letters

\* C25: when the first token is not a string of 2 to 7 characters that begins
\* with a letter, the result carries the illegal-identifier error and no
\* other field of the result is set, whatever tokens follow.
C25_IllegalIdentifierStopsTheParse ==
    (Parsed /\ last.arg[2] # <<>> /\ ~LegalACID(last.arg[2])) =>
        /\ fault = ""
        /\ last.ret = [ZeroFields EXCEPT !.Error = ErrIllegalACID]

\* C26: a 2-character token after the identifier that begins with a period is
\* classified as a rule code: ".V" and ".P" set the rules to VFR, ".E" sets
\* them to IFR, and any other second character sets a parse error.
C26_PeriodTokenIsRuleCode ==
    (Parsed /\ Len(last.arg[2]) = 2 /\ LegalACID(last.arg[2])
        /\ Len(last.arg[2][2]) = 2 /\ last.arg[2][2][1] = ".") =>
        LET code == last.arg[2][2][2]
        IN /\ last.ret.ControllingPosition = <<>>
           /\ code \in {"V", "P"} => last.ret.Rules = VFR /\ last.ret.Error = ""
           /\ code = "E" => last.ret.Rules = IFR /\ last.ret.Error = ""
           /\ code \notin {"V", "P", "E"} => last.ret.Error # ""

\* C27: ParseAbbreviatedFPFields never raises: for every token list, the
\* empty list and lists with 1-character and 2-character tokens under either
\* setting of the long-scratchpad flags included, it returns a result.
C27_ParseNeverFaults ==
    Parsed => fault = ""

\* the steps of the last operation at facility fac, in order
StepsAt(fac) == SelectSeq(last.steps, LAMBDA s : s.fac = fac)

\* the messages of a sequence of steps
MessagesOf(ss) == [i \in 1 .. Len(ss) |-> ss[i].msg]

\* C28: each RequestFlightPlan message a center handles removes exactly one
\* element from the head of that center's received-message queue while the
\* pass runs over it, and a pass that returns has nevertheless handled every
\* message that was in the queue when it began, each once and in order.
C28_RequestFlightPlanDiscardsHead ==
    last.op = "Update" =>
        /\ \A i \in Handled(Centers, RequestFlightPlan) :
              last.steps[i].fault = "" =>
                  /\ last.steps[i].pre.ReceivedMessages # <<>>
                  /\ last.steps[i].post.ReceivedMessages
                         = Tail(last.steps[i].pre.ReceivedMessages)
        /\ \A k \in 1 .. Len(last.phases) :
              last.phases[k].pass = "SortMessages" =>
                  LET ss == StepsAt(last.phases[k].fac)
                      requests == SelectSeq(ss, LAMBDA s : s.msg.MessageType = RequestFlightPlan)
                  IN /\ ss # <<>> => MessagesOf(ss) = ss[1].pre.ReceivedMessages
                     /\ Len(ss) = Len(last.phases[k].queue) + Len(requests)

\* a center handled a RequestFlightPlan message that stood first in a queue
\* of two, then the message behind it, and its pass returned
C28_MessageBehindRequestHandled ==
    /\ last.op = "Update"
    /\ \E k \in 1 .. Len(last.phases) :
          /\ last.phases[k].pass = "SortMessages"
          /\ LET ss == StepsAt(last.phases[k].fac)
             IN /\ Len(ss) = 2
                /\ ss[1].msg.MessageType = RequestFlightPlan
                /\ ss[2].msg.MessageType = Plan
                /\ ss[1].post.ReceivedMessages = <<ss[2].msg>>

\* the squawk code as the four octal digits a controller enters
SquawkString(q) ==
    LET d == <<"0", "1", "2", "3", "4", "5", "6", "7">>
    IN <<d[((q \div 512) % 8) + 1], d[((q \div 64) % 8) + 1], d[((q \div 8) % 8) + 1],
         d[(q % 8) + 1]>>

\* the plans a terminal facility holds, in ContainedPlans or in a track
PlansHeldBy(t) ==
    {stars[t].ContainedPlans[q] : q \in DOMAIN stars[t].ContainedPlans}
    \cup {stars[t].TrackInformation[id].FlightPlan : id \in DOMAIN stars[t].TrackInformation}

\* C29: a terminal facility that took a handoff, so that the plan went from
\* its ContainedPlans into the track, and then handles the recall of that
\* track keeps the plan: when the recall was the last message it handled, it
\* still holds the plan, and GetFlightPlan finds it by its squawk and by its
\* callsign.
C29_RecalledPlanKept ==
    \A i \in Recalls :
        LET s == last.steps[i]
            t == s.fac
            ref == s.pre.TrackInformation[s.msg.Identifier].FlightPlan
        IN (ref # NilPlan /\ \A j \in i + 1 .. Len(last.steps) : last.steps[j].fac # t) =>
              /\ ref \in PlansHeldBy(t)
              /\ GetFlightPlan(World, t, SquawkString(heap[ref].AssignedSquawk)) = {<<ref, "">>}
              /\ GetFlightPlan(World, t, heap[ref].Callsign) = {<<ref, "">>}

\* in the step from the unprimed to the primed state, SendFlightPlan recorded
\* no more destinations on a plan than it appended Plan messages for it
SendForEveryRecord ==
    \A ref \in 1 .. Len(heap') :
        Len(heap'[ref].ContainedFacilities)
            - (IF ref <= Len(heap) THEN Len(heap[ref].ContainedFacilities) ELSE 0)
        <= Cardinality({i \in 1 .. Len(last'.delivered) :
                           /\ last'.delivered[i].during = "SendFlightPlans"
                           /\ last'.delivered[i].plan = ref})

\* the destination recorded last on every plan the timed transmission of the
\* last Update sent is the facility whose inbox took the message
RecordedWhereSent ==
    last.op = "Update" =>
        \A i \in TimedSends :
            LET sent == heap[last.delivered[i].plan].ContainedFacilities
            IN sent # <<>> /\ sent[Len(sent)] = last.delivered[i].to

\* C30: whenever SendFlightPlan appends a facility to a plan's
\* ContainedFacilities, a Plan message for that plan was appended to an inbox
\* in the same call, and the facility recorded is the one the message was
\* addressed to.
C30_DestinationRecordedBySuccessfulSend ==
    [][SendForEveryRecord /\ RecordedWhereSent']_vars

\* C31: when a center that stored a plan from a Plan message later answers a
\* RequestFlightPlan for that squawk, the Plan message it sends to the
\* requesting terminal facility carries the squawk, route, altitude string and
\* coordination fix of the stored plan, which are those of the message the
\* plan was stored from.
C31_RequestAnswerRelaysThePlan ==
    last.op = "Update" =>
        \A i \in Handled(Centers, RequestFlightPlan) :
            LET s == last.steps[i]
            IN \A k \in 1 .. Len(s.out) :
                  s.msg.BCN \in DOMAIN s.pre.FlightPlans =>
                      LET fp == heap[s.pre.FlightPlans[s.msg.BCN]]
                      IN /\ s.out[k].msg.BCN = fp.AssignedSquawk
                         /\ s.out[k].msg.Route = fp.Route
                         /\ s.out[k].msg.Altitude = fp.Altitude
                         /\ s.out[k].msg.CoordinationFix = fp.CoordinationFix

\* no inbox holds anything but what the clear of an earlier pass left
NothingDelivered ==
    /\ \A c \in Centers :
          \A i \in 1 .. Len(eram[c].ReceivedMessages) :
              eram[c].ReceivedMessages[i] = ZeroMessage
    /\ \A t \in Tracons :
          \A i \in 1 .. Len(stars[t].ReceivedMessages) :
              stars[t].ReceivedMessages[i] = ZeroMessage

\* the plan tables, track tables, squawk pools and the event stream
Tables ==
    <<[c \in Centers |-> <<eram[c].FlightPlans, eram[c].TrackInformation,
                           eram[c].AvailableSquawks>>],
      [t \in Tracons |-> <<stars[t].ContainedPlans, stars[t].TrackInformation>>],
      bank, heap, events>>

\* the step is an Update that follows an Update which processed messages,
\* with no message delivered in between and no plan for it to transmit
IdleUpdate ==
    /\ last.op = "Update" /\ last.steps # <<>> /\ fault = ""
    /\ NothingDelivered
    /\ last'.op = "Update" /\ ticks' = ticks + 1
    /\ TimedSends' = {}

\* C32: an Update that follows an Update which processed messages, with no
\* newly delivered message and no plan newly inside its transmit window,
\* completes without a fatal condition and leaves every plan table, track
\* table, squawk pool and the event stream unchanged.
C32_IdleUpdateIsNoOp ==
    [][IdleUpdate => (fault' = "" /\ Tables' = Tables)]_vars

\* C33: a center's SortMessages completes without a runtime fault for an
\* InitiateTransfer whose squawk has no entry in the center's FlightPlans
\* table and whose identifier has no Track Information yet, for every
\* non-empty adaptation.
C33_TransferWithoutPlanHandled ==
    last.op = "Update" =>
        \A i \in Handled(Centers, InitiateTransfer) :
            LET s == last.steps[i]
            IN (/\ s.msg.BCN \notin DOMAIN s.pre.FlightPlans
                /\ NoTrack(s.pre, s.msg.Identifier)
                /\ CoordinationFixes(s.fac) # EmptyMap)
               => s.fault = ""

\* C34: a center's SortMessages ignores an AcceptRecallTransfer for an
\* identifier with no Track Information: track table and squawk pool stay
\* unchanged, nothing is forwarded and no runtime fault occurs, also when the
\* message's coordination fix is present in the adaptation.
C34_AcceptWithoutTrackIgnoredAtCenter ==
    last.op = "Update" =>
        \A i \in Handled(Centers, AcceptRecallTransfer) :
            LET s == last.steps[i]
            IN NoTrack(s.pre, s.msg.Identifier) =>
                  /\ s.fault = ""
                  /\ s.out = <<>>
                  /\ s.post.TrackInformation = s.pre.TrackInformation
                  /\ s.post.AvailableSquawks = s.pre.AvailableSquawks

\* C35: at a terminal facility, processing the same accept message (an
\* AcceptRecallTransfer whose owner differs from the owner held before the
\* first copy) twice leaves the same Track Information as processing it once;
\* the second copy does not delete the track.
C35_AcceptIdempotent ==
    last.op = "Update" =>
        \A t \in Tracons :
            LET ss == StepsAt(t)
            IN \A i \in 1 .. Len(ss) - 1 :
                  (/\ ss[i].msg.MessageType = AcceptRecallTransfer
                   /\ ss[i + 1].msg = ss[i].msg
                   /\ ~NoTrack(ss[i].pre, ss[i].msg.Identifier)
                   /\ ss[i].pre.TrackInformation[ss[i].msg.Identifier].TrackOwner
                          # ss[i].msg.TrackOwner)
                  => ss[i + 1].post.TrackInformation = ss[i].post.TrackInformation

\* the steps of the last operation in which a terminal facility handled an
\* InitiateTransfer while it held neither a plan for the squawk nor Track
\* Information for the identifier
RejectedTransfers ==
    {i \in Handled(Tracons, InitiateTransfer) :
        /\ last.steps[i].msg.BCN \notin DOMAIN last.steps[i].pre.ContainedPlans
        /\ last.steps[i].msg.Identifier \notin DOMAIN last.steps[i].pre.TrackInformation}

\* a rejected transfer left the facility's tables as they were and posted the
\* TransferRejected event and nothing else
RejectedChangesNothing ==
    \A i \in RejectedTransfers :
        LET s == last.steps[i]
        IN /\ s.post.ContainedPlans = s.pre.ContainedPlans
           /\ s.post.TrackInformation = s.pre.TrackInformation
           /\ s.post.UnsupportedTracks = s.pre.UnsupportedTracks
           /\ s.posted = <<Event(TransferRejectedEvent, s.msg.Identifier, s.msg.TrackOwner)>>
           /\ s.out = <<>>
           /\ s.fault = ""

\* C36: when a terminal facility handles an InitiateTransfer while neither a
\* plan for the message's squawk nor Track Information for its identifier
\* exists, ContainedPlans, TrackInformation, UnsupportedTracks and the squawk
\* pool are unchanged after the message and only the TransferRejected event is
\* posted.
C36_RejectedTransferChangesNothing ==
    [][/\ RejectedChangesNothing'
       /\ (RejectedTransfers' # {} /\ last'.steps # last.steps) => bank' = bank]_vars

\* N90 rejected an InitiateTransfer while it held a track for another
\* identifier
C36_TransferRejected ==
    /\ last.op = "Update"
    /\ \E i \in RejectedTransfers :
          /\ DOMAIN last.steps[i].pre.TrackInformation # {}
          /\ last.steps[i].posted # <<>>
          /\ last.steps[i].posted[1].Type = TransferRejectedEvent
          /\ last.steps[i].fac = "N90"

\* the simulation runs and no inbox holds a message that waits to be handled
Quiescent == fault = "" /\ NothingDelivered

C38_UpdateCenterAlwaysReturns ==
    last.op = "UpdateCenter" => (fault = "" /\ last.ret \in {"sent", "dropped"})

\* goroutine g is inside neither Lock nor Unlock
OutsideCalls(g) == pc[g].at \in {"out", "held"}

\* C39: when goroutines call Unlock only on a LoggingMutex whose Lock call
\* has returned to them, Unlock never reports "mutex not held", and whenever
\* no goroutine is inside Lock or Unlock, heldMutexes contains exactly the
\* LoggingMutexes that are locked.
C39_HeldMutexesConsistent ==
    /\ notHeld = {}
    /\ (\A g \in Goroutines : OutsideCalls(g))
          => heldMutexes = {l \in LoggingMutexes : Mutex[l]}

\* Unlock has looked its mutex up and deleted it while another goroutine
\* waits in Lock for the same mutex
C39_UnlockFoundMutexWhileAnotherWaits ==
    \E g, h \in Goroutines :
        /\ g # h
        /\ pc[g].at = "Unlock:91"
        /\ pc[h] = [at |-> "Lock:56", l |-> pc[g].l]
        /\ notHeld = {}

\* goroutine g waits for a sync.Mutex that is locked
Waiting(g) ==
    \/ At(g, "Lock:56") /\ Mutex[pc[g].l]
    \/ At(g, "Lock:58") /\ heldMutexesMutex
    \/ At(g, "Unlock:72") /\ heldMutexesMutex

\* goroutine g is inside Lock
InLock(g) == pc[g].at \in {"Lock:56", "Lock:58", "Lock:59", "Lock:60"}

\* C40: for goroutines that repeatedly Lock and then Unlock LoggingMutexes,
\* each holding at most one at a time, no reachable state has every goroutine
\* blocked, and under fair scheduling every Lock call eventually returns.
C40_NoDeadlockAndLockReturns ==
    /\ [](\E g \in Goroutines : ~Waiting(g))
    /\ \A g \in Goroutines : InLock(g) ~> At(g, "held")

\* a goroutine waits in Lock for heldMutexesMutex with its mutex taken, while
\* a goroutine in Unlock holds heldMutexesMutex and has not released its
\* mutex yet
C40_LockWaitsForUnlock ==
    \E g, h \in Goroutines :
        /\ At(g, "Lock:58") /\ At(h, "Unlock:91")
        /\ heldMutexesMutex /\ Mutex[pc[g].l] /\ Mutex[pc[h].l]

====
